---- MODULE Spec2Model ----
(***************************************************************************)
(* Model of the project diff editor of crates/editor/src/git/project_diff.rs *)
(* (ProjectDiffEditor): the excerpt reconciliation of update_excerpts and  *)
(* the project event handler that feeds it.                                *)
(*                                                                         *)
(* Representation.                                                         *)
(*  - A path is a natural number; compare_paths is the order of the        *)
(*    naturals.  A file's ProjectEntryId is derived from its worktree and  *)
(*    path, and the buffer opened for a file is named by that entry id.    *)
(*  - A buffer position (text::Anchor) is a row number 0..MaxRow: diff     *)
(*    hunks are whole-line ranges, and the code pads and expands excerpts  *)
(*    by rows.  Buffers are not edited between passes, so max_point().row  *)
(*    is MaxRow for every buffer.                                          *)
(*  - A hunk and an excerpt context are records [start, end] of rows.      *)
(*  - Changes keeps the buffer and the hunks; the git status takes no part *)
(*    in reconciliation and is left out.                                   *)
(*  - The MultiBuffer is the sequence of its excerpts, in document order,  *)
(*    and the counter it draws excerpt ids from.                           *)
(***************************************************************************)
EXTENDS Integers, Sequences, FiniteSets, TLC

\* ------------------------------------------------------------------ bounds
\* Last row of every buffer (max_point().row).
MaxRow == 5
\* Paths of a worktree are 1..NumPaths.
NumPaths == 3
\* Reconciliation passes explored per behaviour of Spec and SpecReconcile.
MaxPasses == 3
\* Paths of a worktree in Spec are 1..NumEventPaths.
NumEventPaths == 2
\* Reconciliation passes explored per behaviour of SpecHunks.
MaxHunkPasses == 2
MaxLongPasses == 4
MaxLoopRow == 2
\* Hunks per file in SpecHunks.
MaxHunks == 2
\* Rescan tasks spawned in SpecSched, the one of the constructor included.
MaxTasks == 3
\* Files of a worktree in SpecSched.
NumSchedPaths == 1
\* Files of the worktree in SpecLoad.
NumLoadPaths == 2

\* editor::DEFAULT_MULTIBUFFER_CONTEXT, imported at project_diff.rs:35.
DEFAULT_MULTIBUFFER_CONTEXT == 2

\* ExcerptId::min(), the anchor that stands for the start of the document.
ExcerptIdMin == 0

Worktrees == {1, 2}
Paths == 1..NumPaths

\* ----------------------------------------------------------------- helpers
Min(a, b) == IF a < b THEN a ELSE b
Max(a, b) == IF a > b THEN a ELSE b

\* u32::saturating_sub
saturating_sub(a, b) == IF a > b THEN a - b ELSE 0

\* Ord::cmp on rows (Anchor::cmp under one buffer snapshot).
Cmp(a, b) == IF a < b THEN "Less" ELSE IF a > b THEN "Greater" ELSE "Equal"

is_le(o) == o \in {"Less", "Equal"}
is_ge(o) == o \in {"Greater", "Equal"}

\* util::paths::compare_paths on two file paths.
compare_paths(a, b) == Cmp(a, b)

\* The ProjectEntryId of path p in worktree w; the file's buffer has the same name.
EntryId(w, p) == (w - 1) * NumPaths + p

Hunk(s, e) == [start |-> s, end |-> e]

\* Vec::insert(i, x), i counted from 0.
VecInsert(v, i, x) == SubSeq(v, 1, i) \o <<x>> \o SubSeq(v, i + 1, Len(v))

\* A map with key k set to v (entry(k).or_default() followed by a write).
MapPut(m, k, v) == [x \in DOMAIN m \cup {k} |-> IF x = k THEN v ELSE m[x]]

\* HashMap::get(k).is_some(); the value is then m[k].
Has(m, k) == k \in DOMAIN m

\* A map without the key k (HashMap::remove / BTreeMap::remove).
MapRemove(m, k) == [x \in DOMAIN m \ {k} |-> m[x]]

EmptyMap == [x \in {} |-> 0]

\* The elements of a sequence.
Range(s) == {s[i] : i \in DOMAIN s}

\* The keys of a BTreeMap in ascending order.
RECURSIVE SortedKeys(_)
SortedKeys(S) ==
    IF S = {} THEN <<>>
    ELSE LET m == CHOOSE x \in S : \A y \in S : x <= y
         IN  <<m>> \o SortedKeys(S \ {m})

\* -------------------------------------------------------------- MultiBuffer
\* A MultiBuffer value: [excerpts |-> sequence of [id, buffer, start, end],
\*                       next_excerpt_id |-> the next id to hand out,
\*                       calls |-> the calls the latest update_excerpts made].
NewMultiBuffer == [excerpts |-> <<>>, next_excerpt_id |-> 1, calls |-> <<>>]

\* One call in the record of calls: the method, the anchor it was given (for
\* insert_excerpts_after) and whether that anchor was usable when it was called.
Call(op, anchor, anchor_valid) == [op |-> op, anchor |-> anchor, anchor_valid |-> anchor_valid]

\* Index (from 1) of the excerpt with this id, 0 when there is none.
ExcerptIndex(exs, id) ==
    IF \E i \in DOMAIN exs : exs[i].id = id
    THEN CHOOSE i \in DOMAIN exs : exs[i].id = id
    ELSE 0

\* The excerpts made for context ranges `ranges` of `buffer`, ids from `first`.
MakeExcerpts(buffer, ranges, first) ==
    [i \in 1..Len(ranges) |->
        [id |-> first + i - 1, buffer |-> buffer,
         start |-> ranges[i].start, end |-> ranges[i].end]]

\* MultiBuffer::insert_excerpts_after(prev_excerpt_id, buffer, ranges):
\* one excerpt per range, right after the excerpt prev_excerpt_id (at the
\* start of the document for ExcerptId::min()); the other excerpts keep
\* their order.  An anchor that is not in the document inserts nothing.
insert_excerpts_after(mb, prev_excerpt_id, buffer, ranges) ==
    LET at == IF prev_excerpt_id = ExcerptIdMin THEN 0
              ELSE ExcerptIndex(mb.excerpts, prev_excerpt_id)
        valid == prev_excerpt_id = ExcerptIdMin \/ at > 0
        new == MakeExcerpts(buffer, ranges, mb.next_excerpt_id)
        calls == Append(mb.calls, Call("insert_excerpts_after", prev_excerpt_id, valid))
    IN  IF ~valid THEN [mb EXCEPT !.calls = calls]
        ELSE [excerpts |-> SubSeq(mb.excerpts, 1, at) \o new
                           \o SubSeq(mb.excerpts, at + 1, Len(mb.excerpts)),
              next_excerpt_id |-> mb.next_excerpt_id + Len(ranges),
              calls |-> calls]

\* The ids insert_excerpts_after returns.
inserted_ids(mb, prev_excerpt_id, ranges) ==
    IF prev_excerpt_id = ExcerptIdMin \/ ExcerptIndex(mb.excerpts, prev_excerpt_id) > 0
    THEN [i \in 1..Len(ranges) |-> mb.next_excerpt_id + i - 1]
    ELSE <<>>

\* MultiBuffer::remove_excerpts(ids).
remove_excerpts(mb, ids) ==
    [mb EXCEPT !.excerpts = SelectSeq(@, LAMBDA x : x.id \notin ids),
               !.calls = Append(@, Call("remove_excerpts", ExcerptIdMin, TRUE))]

\* ExpandExcerptDirection::should_expand_up / should_expand_down.
should_expand_up(direction) == direction \in {"Up", "UpAndDown"}
should_expand_down(direction) == direction \in {"Down", "UpAndDown"}

\* MultiBuffer::expand_excerpts(ids, line_count, direction): each named
\* excerpt grows in place by line_count rows on the side(s) of direction,
\* clipped to the buffer.
expand_excerpts(mb, ids, line_count, direction) ==
    [mb EXCEPT !.calls = Append(@, Call("expand_excerpts", ExcerptIdMin, TRUE)),
               !.excerpts =
        [i \in DOMAIN @ |->
            IF @[i].id \in ids
            THEN [@[i] EXCEPT
                    !.start = IF should_expand_up(direction)
                              THEN saturating_sub(@, line_count) ELSE @,
                    !.end = IF should_expand_down(direction)
                            THEN Min(@ + line_count, MaxRow) ELSE @]
            ELSE @[i]]]

\* A variant of all_buffers that yields only the buffer of the first excerpt.
all_buffers_first(mb) ==
    IF mb.excerpts = <<>> THEN {} ELSE {mb.excerpts[1].buffer}

\* MultiBuffer::all_buffers(): the buffers that have an excerpt in the document.
all_buffers(mb) == {mb.excerpts[i].buffer : i \in DOMAIN mb.excerpts}

\* MultiBuffer::excerpts_for_buffer(buffer): its excerpts in document order.
excerpts_for_buffer(mb, buffer) ==
    SelectSeq(mb.excerpts, LAMBDA x : x.buffer = buffer)

\* MultiBuffer::push_excerpts_with_context_lines(buffer, ranges, n): one
\* excerpt per range appended at the end of the document, padded by n rows
\* on each side and clipped to the buffer.
push_excerpts_with_context_lines(mb, buffer, ranges, context_line_count) ==
    LET padded == [i \in DOMAIN ranges |->
                     [start |-> saturating_sub(ranges[i].start, context_line_count),
                      end |-> Min(ranges[i].end + context_line_count, MaxRow)]]
    IN  [excerpts |-> mb.excerpts \o MakeExcerpts(buffer, padded, mb.next_excerpt_id),
         next_excerpt_id |-> mb.next_excerpt_id + Len(ranges),
         calls |-> Append(mb.calls, Call("push_excerpts_with_context_lines",
                                         ExcerptIdMin, TRUE))]

\* ---------------------------------------------------------- update_excerpts
\* <[T]>::binary_search_by(f) with f(probe) = compare_paths(new_path, probe.path),
\* as the closures at project_diff.rs:384, 646, 730 and 820 are written.
\* Indices count from 0; the result is [found, index].
RECURSIVE binary_search_loop(_, _, _, _)
binary_search_loop(vec, new_path, left, right) ==
    IF left >= right THEN [found |-> FALSE, index |-> left]
    ELSE LET mid == left + ((right - left) \div 2)
             c == compare_paths(new_path, vec[mid + 1].path)
         IN  IF c = "Equal" THEN [found |-> TRUE, index |-> mid]
             ELSE IF c = "Less" THEN binary_search_loop(vec, new_path, mid + 1, right)
             ELSE binary_search_loop(vec, new_path, left, mid)

binary_search_by(vec, new_path) == binary_search_loop(vec, new_path, 0, Len(vec))

\* The hunks of a file queued for insertion after latest_excerpt_id
\* (new_excerpt_hunks.entry(latest_excerpt_id).or_default(), then the
\* binary search and Vec::insert / Vec::extend).
QueueInsertion(new_excerpt_hunks, latest_excerpt_id, new_path, buffer, ranges) ==
    LET hunks == IF latest_excerpt_id \in DOMAIN new_excerpt_hunks
                 THEN new_excerpt_hunks[latest_excerpt_id] ELSE <<>>
        r == binary_search_by(hunks, new_path)
        updated ==
            IF r.found
            THEN [hunks EXCEPT ![r.index + 1].ranges = @ \o ranges]
            ELSE VecInsert(hunks, r.index,
                           [path |-> new_path, buffer |-> buffer, ranges |-> ranges])
    IN  MapPut(new_excerpt_hunks, latest_excerpt_id, updated)

\* excerpt_to_expand.entry((line_count, direction)).or_default().push(id)
QueueExpansion(excerpt_to_expand, line_count, direction, id) ==
    LET k == <<line_count, direction>>
        ids == IF k \in DOMAIN excerpt_to_expand THEN excerpt_to_expand[k] ELSE <<>>
    IN  MapPut(excerpt_to_expand, k, Append(ids, id))

\* The first diff of the Equal arm (project_diff.rs:418-524): the new hunks
\* against the file's old hunks.  ch is the cursor into the old hunks
\* (current_hunks, peekable), nh the index of the new hunk under the for loop.
\* Result: [unchanged, with_updates], both in the order of the new hunks.
RECURSIVE DiffHunks(_, _, _, _, _)
DiffHunks(current_hunks, new_hunks, ch, nh, acc) ==
    IF nh > Len(new_hunks) THEN acc
    ELSE
      LET new_hunk == new_hunks[nh]
          updated == [acc EXCEPT !.with_updates = Append(@, new_hunk)]
      IN
      IF ch > Len(current_hunks)
      THEN DiffHunks(current_hunks, new_hunks, ch, nh + 1, updated)
      ELSE
        LET current_hunk == current_hunks[ch]
            s == Cmp(current_hunk.start, new_hunk.start)
            e == Cmp(current_hunk.end, new_hunk.end)
        IN
        IF s = "Equal" /\ e = "Equal"
        THEN DiffHunks(current_hunks, new_hunks, ch + 1, nh + 1,
                       [acc EXCEPT !.unchanged = Append(@, new_hunk)])
        ELSE IF s = "Equal" \/ e = "Equal"
        THEN DiffHunks(current_hunks, new_hunks, ch, nh + 1, updated)
        ELSE IF (s = "Less" /\ e = "Greater") \/ (s = "Greater" /\ e = "Less")
        THEN DiffHunks(current_hunks, new_hunks, ch, nh + 1, updated)
        ELSE IF s = "Less" /\ e = "Less"
        THEN IF is_le(Cmp(current_hunk.start, new_hunk.end))
             THEN DiffHunks(current_hunks, new_hunks, ch, nh + 1, updated)
             ELSE DiffHunks(current_hunks, new_hunks, ch + 1, nh, acc)
        ELSE \* (Greater, Greater)
             IF is_ge(Cmp(current_hunk.end, new_hunk.start))
             THEN DiffHunks(current_hunks, new_hunks, ch, nh + 1, updated)
             ELSE DiffHunks(current_hunks, new_hunks, ch + 1, nh, acc)

\* The second diff of the Equal arm (project_diff.rs:526-769): every hunk of
\* new_hunks_with_updates against the file's excerpts.  f is the frame of the
\* file: [new_path, buffer, new_hunks, excerpts]; ce is the cursor into
\* f.excerpts (current_excerpts, peekable); st carries new_excerpt_hunks,
\* excerpt_to_expand, latest_excerpt_id, excerpts_with_new_changes and ce.
RECURSIVE ClassifyHunks(_, _, _, _)
ClassifyHunks(f, with_updates, hi, st) ==
    IF hi > Len(with_updates) THEN st
    ELSE
      LET new_hunk == with_updates[hi]
          queued == [st EXCEPT !.new_excerpt_hunks =
                        QueueInsertion(@, st.latest_excerpt_id, f.new_path,
                                       f.buffer, f.new_hunks)]
      IN
      IF st.ce > Len(f.excerpts)
      THEN ClassifyHunks(f, with_updates, hi + 1, queued)
      ELSE
        LET ex == f.excerpts[st.ce]
            s == Cmp(ex.start, new_hunk.start)
            e == Cmp(ex.end, new_hunk.end)
            expand_up == saturating_sub(ex.start, new_hunk.start)
            expand_down == saturating_sub(new_hunk.end, ex.end)
            touched == [st EXCEPT !.excerpts_with_new_changes = @ \cup {ex.id}]
            expanded(line_count, direction) ==
                [touched EXCEPT !.excerpt_to_expand =
                    QueueExpansion(@, line_count, direction, ex.id)]
        IN
        IF is_le(s) /\ is_ge(e)
        THEN ClassifyHunks(f, with_updates, hi + 1, touched)
        ELSE IF is_ge(s) /\ is_le(e)
        THEN ClassifyHunks(f, with_updates, hi + 1,
                 expanded(Max(Max(expand_up, expand_down), DEFAULT_MULTIBUFFER_CONTEXT),
                          "UpAndDown"))
        ELSE IF s = "Less" /\ e = "Less"
        THEN IF is_le(Cmp(ex.start, new_hunk.end))
             THEN ClassifyHunks(f, with_updates, hi + 1,
                      expanded(Max(expand_up, DEFAULT_MULTIBUFFER_CONTEXT), "Up"))
             ELSE ClassifyHunks(f, with_updates, hi + 1,
                      IF f.new_hunks # <<>> THEN queued ELSE st)
        ELSE \* (Greater, Greater)
             IF is_ge(Cmp(ex.end, new_hunk.start))
             THEN ClassifyHunks(f, with_updates, hi + 1,
                      expanded(Max(expand_down, DEFAULT_MULTIBUFFER_CONTEXT), "Down"))
             ELSE ClassifyHunks(f, with_updates, hi,
                      [st EXCEPT !.latest_excerpt_id = ex.id, !.ce = @ + 1])

\* A variant of the overlap test in which ranges that share only an endpoint
\* do not overlap.
OverlapsUnchangedExclusive(ex, unchanged) ==
    \E i \in DOMAIN unchanged :
        /\ Cmp(ex.start, unchanged[i].end) = "Less"
        /\ Cmp(ex.end, unchanged[i].start) = "Greater"

\* Whether an excerpt's context overlaps one of the unchanged hunks
\* (project_diff.rs:773-790, endpoints inclusive).
OverlapsUnchanged(ex, unchanged) ==
    \E i \in DOMAIN unchanged :
        /\ is_le(Cmp(ex.start, unchanged[i].end))
        /\ is_ge(Cmp(ex.end, unchanged[i].start))

\* A variant of the closing loop that does not look at the touched excerpts.
RECURSIVE RemoveUnlessUnchanged(_, _, _)
RemoveUnlessUnchanged(f, unchanged, st) ==
    IF st.ce > Len(f.excerpts) THEN st
    ELSE LET ex == f.excerpts[st.ce]
         IN  RemoveUnlessUnchanged(f, unchanged,
                 [st EXCEPT !.excerpts_to_remove =
                                IF OverlapsUnchanged(ex, unchanged) THEN @
                                ELSE Append(@, ex.id),
                            !.latest_excerpt_id = ex.id,
                            !.ce = @ + 1])

\* The closing loop of the Equal arm (project_diff.rs:771-795) over the
\* excerpts left in current_excerpts.
RECURSIVE RemoveUntouched(_, _, _)
RemoveUntouched(f, unchanged, st) ==
    IF st.ce > Len(f.excerpts) THEN st
    ELSE LET ex == f.excerpts[st.ce]
             drop == /\ ex.id \notin st.excerpts_with_new_changes
                     /\ ~OverlapsUnchanged(ex, unchanged)
         IN  RemoveUntouched(f, unchanged,
                 [st EXCEPT !.excerpts_to_remove = IF drop THEN Append(@, ex.id) ELSE @,
                            !.latest_excerpt_id = ex.id,
                            !.ce = @ + 1])

\* The state the merge loops of update_excerpts carry (project_diff.rs:339-347).
\* ni is the position of new_order_entries (a peekable iterator), from 1.
InitialPass ==
    [ni |-> 1,
     excerpts_to_remove |-> <<>>,
     new_excerpt_hunks |-> EmptyMap,
     excerpt_to_expand |-> EmptyMap,
     latest_excerpt_id |-> ExcerptIdMin]

\* excerpts_to_remove.extend(current_excerpts.map(|(excerpt_id, _)| excerpt_id))
RemoveAll(st, buffer_excerpts) ==
    [st EXCEPT !.excerpts_to_remove =
        @ \o [i \in DOMAIN buffer_excerpts |-> buffer_excerpts[i].id]]

\* The Ordering::Equal arm for a file present on both sides
\* (project_diff.rs:413-803, without the advance of the new cursor).
EqualArm(st, new_entry, new_changes, current_changes, buffer_excerpts) ==
    IF ~Has(new_changes, new_entry.id) THEN RemoveAll(st, buffer_excerpts)
    ELSE
      LET new_changes_of_entry == new_changes[new_entry.id]
          f == [new_path |-> new_entry.path,
                buffer |-> new_changes_of_entry.buffer,
                new_hunks |-> new_changes_of_entry.hunks,
                excerpts |-> buffer_excerpts]
          d == DiffHunks(current_changes.hunks, new_changes_of_entry.hunks, 1, 1,
                         [unchanged |-> <<>>, with_updates |-> <<>>])
          s0 == [new_excerpt_hunks |-> st.new_excerpt_hunks,
                 excerpt_to_expand |-> st.excerpt_to_expand,
                 excerpts_to_remove |-> st.excerpts_to_remove,
                 latest_excerpt_id |-> st.latest_excerpt_id,
                 excerpts_with_new_changes |-> {},
                 ce |-> 1]
          s1 == ClassifyHunks(f, d.with_updates, 1, s0)
          s2 == RemoveUntouched(f, d.unchanged, s1)
      IN  [st EXCEPT !.new_excerpt_hunks = s2.new_excerpt_hunks,
                     !.excerpt_to_expand = s2.excerpt_to_expand,
                     !.excerpts_to_remove = s2.excerpts_to_remove,
                     !.latest_excerpt_id = s2.latest_excerpt_id]

\* The hunks of a file of the new order queued as a new file: the
\* Ordering::Greater arm (project_diff.rs:379-410) and the loop over the
\* entries left in new_order_entries (project_diff.rs:817-840).
QueueNewFile(st, new_entry, new_changes) ==
    IF Has(new_changes, new_entry.id) /\ new_changes[new_entry.id].hunks # <<>>
    THEN [st EXCEPT !.new_excerpt_hunks =
             QueueInsertion(@, st.latest_excerpt_id, new_entry.path,
                            new_changes[new_entry.id].buffer,
                            new_changes[new_entry.id].hunks)]
    ELSE st

\* The `loop` of one entry of current_order (project_diff.rs:366-812).
RECURSIVE MergeLoop(_, _, _, _, _, _)
MergeLoop(st, current_path, current_changes, buffer_excerpts, new_entry_order, new_changes) ==
    IF st.ni > Len(new_entry_order) THEN RemoveAll(st, buffer_excerpts)
    ELSE
      LET new_entry == new_entry_order[st.ni]
          o == compare_paths(current_path, new_entry.path)
      IN  IF o = "Less" THEN RemoveAll(st, buffer_excerpts)
          ELSE IF o = "Greater"
          THEN MergeLoop([QueueNewFile(st, new_entry, new_changes) EXCEPT !.ni = @ + 1],
                         current_path, current_changes, buffer_excerpts,
                         new_entry_order, new_changes)
          ELSE [EqualArm(st, new_entry, new_changes, current_changes, buffer_excerpts)
                  EXCEPT !.ni = @ + 1]

\* The for loop over current_order (project_diff.rs:349-814).
RECURSIVE CurrentLoop(_, _, _, _, _, _, _)
CurrentLoop(st, ci, current_order, current_entries, mb, new_entry_order, new_changes) ==
    IF ci > Len(current_order) THEN st
    ELSE
      IF \/ ~Has(current_entries, current_order[ci].id)
         \/ current_entries[current_order[ci].id].hunks = <<>>
      THEN CurrentLoop(st, ci + 1, current_order, current_entries, mb,
                       new_entry_order, new_changes)
      ELSE
        LET current_changes == current_entries[current_order[ci].id]
            buffer_excerpts == excerpts_for_buffer(mb, current_changes.buffer)
            s1 == MergeLoop(st, current_order[ci].path, current_changes,
                            buffer_excerpts, new_entry_order, new_changes)
            s2 == IF buffer_excerpts # <<>>
                  THEN [s1 EXCEPT !.latest_excerpt_id =
                                      buffer_excerpts[Len(buffer_excerpts)].id]
                  ELSE s1
        IN  CurrentLoop(s2, ci + 1, current_order, current_entries, mb,
                        new_entry_order, new_changes)

\* The for loop over what is left of new_order_entries (project_diff.rs:816-841).
RECURSIVE RestLoop(_, _, _)
RestLoop(st, new_entry_order, new_changes) ==
    IF st.ni > Len(new_entry_order) THEN st
    ELSE RestLoop([QueueNewFile(st, new_entry_order[st.ni], new_changes)
                      EXCEPT !.ni = @ + 1],
                  new_entry_order, new_changes)

\* The queues of a steady-state pass: both loops, before the apply phase.
PlanPass(current_order, current_entries, mb, new_entry_order, new_changes) ==
    RestLoop(CurrentLoop(InitialPass, 1, current_order, current_entries, mb,
                         new_entry_order, new_changes),
             new_entry_order, new_changes)

\* A variant of the range extension that leaves the end of the hunk unpadded.
ExtendedRangeUnpaddedEnd(range) ==
    [start |-> saturating_sub(range.start, DEFAULT_MULTIBUFFER_CONTEXT),
     end |-> range.end]

\* The context range of an inserted hunk (project_diff.rs:851-864).
ExtendedRange(range) ==
    [start |-> saturating_sub(range.start, DEFAULT_MULTIBUFFER_CONTEXT),
     end |-> Min(range.end + DEFAULT_MULTIBUFFER_CONTEXT, MaxRow)]

\* The inner for loop of the insertions (project_diff.rs:845-868) over the
\* files queued after one anchor; after_excerpt_id moves to the last
\* excerpt inserted.
RECURSIVE InsertGroup(_, _, _, _)
InsertGroup(mb, after_excerpt_id, excerpts_to_add, i) ==
    IF i > Len(excerpts_to_add) THEN mb
    ELSE
      LET ranges == [k \in DOMAIN excerpts_to_add[i].ranges |->
                        ExtendedRange(excerpts_to_add[i].ranges[k])]
          new_excerpts == inserted_ids(mb, after_excerpt_id, ranges)
          next_after == IF new_excerpts # <<>>
                        THEN new_excerpts[Len(new_excerpts)] ELSE after_excerpt_id
      IN  InsertGroup(insert_excerpts_after(mb, after_excerpt_id,
                                            excerpts_to_add[i].buffer, ranges),
                      next_after, excerpts_to_add, i + 1)

\* The outer for loop of the insertions (project_diff.rs:844-869), over the
\* anchors of new_excerpt_hunks in the order of the BTreeMap.
RECURSIVE ApplyInsertions(_, _, _)
ApplyInsertions(mb, new_excerpt_hunks, keys) ==
    IF keys = <<>> THEN mb
    ELSE ApplyInsertions(InsertGroup(mb, Head(keys), new_excerpt_hunks[Head(keys)], 1),
                         new_excerpt_hunks, Tail(keys))

\* The for loop of the expansions (project_diff.rs:871-873).  The order in
\* which the HashMap yields its keys does not matter: expansions commute.
RECURSIVE ApplyExpansions(_, _, _)
ApplyExpansions(mb, excerpt_to_expand, keys) ==
    IF keys = {} THEN mb
    ELSE LET k == CHOOSE x \in keys : TRUE
         IN  ApplyExpansions(expand_excerpts(mb, Range(excerpt_to_expand[k]), k[1], k[2]),
                             excerpt_to_expand, keys \ {k})

\* A variant of the apply phase that expands first and removes last.
ApplyPassExpandFirst(mb, plan) ==
    LET expanded == ApplyExpansions(mb, plan.excerpt_to_expand,
                                    DOMAIN plan.excerpt_to_expand)
        inserted == ApplyInsertions(expanded, plan.new_excerpt_hunks,
                                    SortedKeys(DOMAIN plan.new_excerpt_hunks))
    IN  remove_excerpts(inserted, Range(plan.excerpts_to_remove))

\* A variant of the apply phase that removes before it inserts.
ApplyPassRemoveFirst(mb, plan) ==
    LET removed == remove_excerpts(mb, Range(plan.excerpts_to_remove))
        inserted == ApplyInsertions(removed, plan.new_excerpt_hunks,
                                    SortedKeys(DOMAIN plan.new_excerpt_hunks))
    IN  ApplyExpansions(inserted, plan.excerpt_to_expand, DOMAIN plan.excerpt_to_expand)

\* The apply phase of a steady-state pass (project_diff.rs:843-874).
ApplyPass(mb, plan) ==
    LET inserted == ApplyInsertions(mb, plan.new_excerpt_hunks,
                                    SortedKeys(DOMAIN plan.new_excerpt_hunks))
        removed == remove_excerpts(inserted, Range(plan.excerpts_to_remove))
    IN  ApplyExpansions(removed, plan.excerpt_to_expand, DOMAIN plan.excerpt_to_expand)

\* A variant of the bootstrap loop that walks the entry order from its end.
RECURSIVE PushAllReversed(_, _, _, _)
PushAllReversed(mb, new_entry_order, new_changes, i) ==
    IF i > Len(new_entry_order) THEN mb
    ELSE LET e == new_entry_order[Len(new_entry_order) + 1 - i]
         IN  PushAllReversed(IF ~Has(new_changes, e.id) THEN mb
                             ELSE push_excerpts_with_context_lines(
                                      mb, new_changes[e.id].buffer, new_changes[e.id].hunks,
                                      DEFAULT_MULTIBUFFER_CONTEXT),
                             new_entry_order, new_changes, i + 1)

\* The bootstrap branch (project_diff.rs:875-893).
RECURSIVE PushAll(_, _, _, _)
PushAll(mb, new_entry_order, new_changes, i) ==
    IF i > Len(new_entry_order) THEN mb
    ELSE PushAll(IF ~Has(new_changes, new_entry_order[i].id) THEN mb
                 ELSE push_excerpts_with_context_lines(
                          mb, new_changes[new_entry_order[i].id].buffer,
                          new_changes[new_entry_order[i].id].hunks,
                          DEFAULT_MULTIBUFFER_CONTEXT),
                 new_entry_order, new_changes, i + 1)

\* ---------------------------------------------------------- terminal keys
\* crates/terminal/src/mappings/keys.rs.  A string is the sequence of its
\* UTF-8 bytes; a key is named by a TLA+ string and KeyTable gives its bytes.
\* Option<String>.
None == [is_some |-> FALSE, value |-> <<>>]
Some(v) == [is_some |-> TRUE, value |-> v]

\* The keys of the model: every printable ASCII character, the key names of
\* the binding tables of to_esc_str, "space", and one key that is not ASCII
\* ("e-acute"); the grave accent, which a TLA+ string cannot hold, is "grave".
KeyTable ==
    <<
      [key |-> "tab", bytes |-> <<116, 97, 98>>],
      [key |-> "escape", bytes |-> <<101, 115, 99, 97, 112, 101>>],
      [key |-> "enter", bytes |-> <<101, 110, 116, 101, 114>>],
      [key |-> "backspace", bytes |-> <<98, 97, 99, 107, 115, 112, 97, 99, 101>>],
      [key |-> "home", bytes |-> <<104, 111, 109, 101>>],
      [key |-> "end", bytes |-> <<101, 110, 100>>],
      [key |-> "pageup", bytes |-> <<112, 97, 103, 101, 117, 112>>],
      [key |-> "pagedown", bytes |-> <<112, 97, 103, 101, 100, 111, 119, 110>>],
      [key |-> "up", bytes |-> <<117, 112>>],
      [key |-> "down", bytes |-> <<100, 111, 119, 110>>],
      [key |-> "right", bytes |-> <<114, 105, 103, 104, 116>>],
      [key |-> "left", bytes |-> <<108, 101, 102, 116>>],
      [key |-> "back", bytes |-> <<98, 97, 99, 107>>],
      [key |-> "insert", bytes |-> <<105, 110, 115, 101, 114, 116>>],
      [key |-> "delete", bytes |-> <<100, 101, 108, 101, 116, 101>>],
      [key |-> "space", bytes |-> <<115, 112, 97, 99, 101>>],
      [key |-> "f1", bytes |-> <<102, 49>>],
      [key |-> "f2", bytes |-> <<102, 50>>],
      [key |-> "f3", bytes |-> <<102, 51>>],
      [key |-> "f4", bytes |-> <<102, 52>>],
      [key |-> "f5", bytes |-> <<102, 53>>],
      [key |-> "f6", bytes |-> <<102, 54>>],
      [key |-> "f7", bytes |-> <<102, 55>>],
      [key |-> "f8", bytes |-> <<102, 56>>],
      [key |-> "f9", bytes |-> <<102, 57>>],
      [key |-> "f10", bytes |-> <<102, 49, 48>>],
      [key |-> "f11", bytes |-> <<102, 49, 49>>],
      [key |-> "f12", bytes |-> <<102, 49, 50>>],
      [key |-> "f13", bytes |-> <<102, 49, 51>>],
      [key |-> "f14", bytes |-> <<102, 49, 52>>],
      [key |-> "f15", bytes |-> <<102, 49, 53>>],
      [key |-> "f16", bytes |-> <<102, 49, 54>>],
      [key |-> "f17", bytes |-> <<102, 49, 55>>],
      [key |-> "f18", bytes |-> <<102, 49, 56>>],
      [key |-> "f19", bytes |-> <<102, 49, 57>>],
      [key |-> "f20", bytes |-> <<102, 50, 48>>],
      [key |-> "F5", bytes |-> <<70, 53>>],
      [key |-> " ", bytes |-> <<32>>],
      [key |-> "!", bytes |-> <<33>>],
      [key |-> "\"", bytes |-> <<34>>],
      [key |-> "#", bytes |-> <<35>>],
      [key |-> "$", bytes |-> <<36>>],
      [key |-> "%", bytes |-> <<37>>],
      [key |-> "&", bytes |-> <<38>>],
      [key |-> "'", bytes |-> <<39>>],
      [key |-> "(", bytes |-> <<40>>],
      [key |-> ")", bytes |-> <<41>>],
      [key |-> "*", bytes |-> <<42>>],
      [key |-> "+", bytes |-> <<43>>],
      [key |-> ",", bytes |-> <<44>>],
      [key |-> "-", bytes |-> <<45>>],
      [key |-> ".", bytes |-> <<46>>],
      [key |-> "/", bytes |-> <<47>>],
      [key |-> "0", bytes |-> <<48>>],
      [key |-> "1", bytes |-> <<49>>],
      [key |-> "2", bytes |-> <<50>>],
      [key |-> "3", bytes |-> <<51>>],
      [key |-> "4", bytes |-> <<52>>],
      [key |-> "5", bytes |-> <<53>>],
      [key |-> "6", bytes |-> <<54>>],
      [key |-> "7", bytes |-> <<55>>],
      [key |-> "8", bytes |-> <<56>>],
      [key |-> "9", bytes |-> <<57>>],
      [key |-> ":", bytes |-> <<58>>],
      [key |-> ";", bytes |-> <<59>>],
      [key |-> "<", bytes |-> <<60>>],
      [key |-> "=", bytes |-> <<61>>],
      [key |-> ">", bytes |-> <<62>>],
      [key |-> "?", bytes |-> <<63>>],
      [key |-> "@", bytes |-> <<64>>],
      [key |-> "A", bytes |-> <<65>>],
      [key |-> "B", bytes |-> <<66>>],
      [key |-> "C", bytes |-> <<67>>],
      [key |-> "D", bytes |-> <<68>>],
      [key |-> "E", bytes |-> <<69>>],
      [key |-> "F", bytes |-> <<70>>],
      [key |-> "G", bytes |-> <<71>>],
      [key |-> "H", bytes |-> <<72>>],
      [key |-> "I", bytes |-> <<73>>],
      [key |-> "J", bytes |-> <<74>>],
      [key |-> "K", bytes |-> <<75>>],
      [key |-> "L", bytes |-> <<76>>],
      [key |-> "M", bytes |-> <<77>>],
      [key |-> "N", bytes |-> <<78>>],
      [key |-> "O", bytes |-> <<79>>],
      [key |-> "P", bytes |-> <<80>>],
      [key |-> "Q", bytes |-> <<81>>],
      [key |-> "R", bytes |-> <<82>>],
      [key |-> "S", bytes |-> <<83>>],
      [key |-> "T", bytes |-> <<84>>],
      [key |-> "U", bytes |-> <<85>>],
      [key |-> "V", bytes |-> <<86>>],
      [key |-> "W", bytes |-> <<87>>],
      [key |-> "X", bytes |-> <<88>>],
      [key |-> "Y", bytes |-> <<89>>],
      [key |-> "Z", bytes |-> <<90>>],
      [key |-> "[", bytes |-> <<91>>],
      [key |-> "\\", bytes |-> <<92>>],
      [key |-> "]", bytes |-> <<93>>],
      [key |-> "^", bytes |-> <<94>>],
      [key |-> "_", bytes |-> <<95>>],
      [key |-> "grave", bytes |-> <<96>>],
      [key |-> "a", bytes |-> <<97>>],
      [key |-> "b", bytes |-> <<98>>],
      [key |-> "c", bytes |-> <<99>>],
      [key |-> "d", bytes |-> <<100>>],
      [key |-> "e", bytes |-> <<101>>],
      [key |-> "f", bytes |-> <<102>>],
      [key |-> "g", bytes |-> <<103>>],
      [key |-> "h", bytes |-> <<104>>],
      [key |-> "i", bytes |-> <<105>>],
      [key |-> "j", bytes |-> <<106>>],
      [key |-> "k", bytes |-> <<107>>],
      [key |-> "l", bytes |-> <<108>>],
      [key |-> "m", bytes |-> <<109>>],
      [key |-> "n", bytes |-> <<110>>],
      [key |-> "o", bytes |-> <<111>>],
      [key |-> "p", bytes |-> <<112>>],
      [key |-> "q", bytes |-> <<113>>],
      [key |-> "r", bytes |-> <<114>>],
      [key |-> "s", bytes |-> <<115>>],
      [key |-> "t", bytes |-> <<116>>],
      [key |-> "u", bytes |-> <<117>>],
      [key |-> "v", bytes |-> <<118>>],
      [key |-> "w", bytes |-> <<119>>],
      [key |-> "x", bytes |-> <<120>>],
      [key |-> "y", bytes |-> <<121>>],
      [key |-> "z", bytes |-> <<122>>],
      [key |-> "{", bytes |-> <<123>>],
      [key |-> "|", bytes |-> <<124>>],
      [key |-> "}", bytes |-> <<125>>],
      [key |-> "~", bytes |-> <<126>>],
      [key |-> "e-acute", bytes |-> <<195, 169>>]
    >>

Keys == {KeyTable[i].key : i \in DOMAIN KeyTable}
\* keystroke.key as a string: its bytes.
KeyBytes(key) == KeyTable[CHOOSE i \in DOMAIN KeyTable : KeyTable[i].key = key].bytes
\* str::is_ascii.
is_ascii(bytes) == \A i \in DOMAIN bytes : bytes[i] < 128

\* The flags of alacritty_terminal::term::TermMode that to_esc_str reads, and
\* one it does not read; a mode is a set of flags.
TermModeFlags == {"ALT_SCREEN", "APP_CURSOR", "SHOW_CURSOR"}
TermModes == SUBSET TermModeFlags
\* A variant of contains that finds every flag set.
contains_always(mode, flag) == TRUE
\* TermMode::contains(flag) (keys.rs:54-101).
contains(mode, flag) == flag \in mode

\* gpui Keystroke: the fields to_esc_str and modifier_code read, and cmd.
Keystrokes == [key : Keys, ctrl : BOOLEAN, alt : BOOLEAN, shift : BOOLEAN, cmd : BOOLEAN]

\* A variant of Modifiers::new without the CtrlShift arm.
Modifiers_new_without_ctrl_shift(ks) ==
    IF ~ks.alt /\ ~ks.ctrl /\ ~ks.shift /\ ~ks.cmd THEN "None"
    ELSE IF ks.alt /\ ~ks.ctrl /\ ~ks.shift /\ ~ks.cmd THEN "Alt"
    ELSE IF ~ks.alt /\ ks.ctrl /\ ~ks.shift /\ ~ks.cmd THEN "Ctrl"
    ELSE IF ~ks.alt /\ ~ks.ctrl /\ ks.shift /\ ~ks.cmd THEN "Shift"
    ELSE "Other"

\* Modifiers::new (keys.rs:16-25).
Modifiers_new(ks) ==
    IF ~ks.alt /\ ~ks.ctrl /\ ~ks.shift /\ ~ks.cmd THEN "None"
    ELSE IF ks.alt /\ ~ks.ctrl /\ ~ks.shift /\ ~ks.cmd THEN "Alt"
    ELSE IF ~ks.alt /\ ks.ctrl /\ ~ks.shift /\ ~ks.cmd THEN "Ctrl"
    ELSE IF ~ks.alt /\ ~ks.ctrl /\ ks.shift /\ ~ks.cmd THEN "Shift"
    ELSE IF ~ks.alt /\ ks.ctrl /\ ks.shift /\ ~ks.cmd THEN "CtrlShift"
    ELSE "Other"

\* Modifiers::any (keys.rs:27-36).
Modifiers_any(modifiers) == modifiers # "None"

\* The arms of the match on (key, modifiers) in to_esc_str (keys.rs:45-187),
\* in source order.  guard is "always" for an arm without a guard, "contains"
\* for `if mode.contains(flag)` and "lacks" for `if !mode.contains(flag)`.
ManualBindings ==
    <<
      [key |-> "tab", modifiers |-> "None", guard |-> "always", flag |-> "", esc |-> <<9>>],
      [key |-> "escape", modifiers |-> "None", guard |-> "always", flag |-> "", esc |-> <<27>>],
      [key |-> "enter", modifiers |-> "None", guard |-> "always", flag |-> "", esc |-> <<13>>],
      [key |-> "enter", modifiers |-> "Shift", guard |-> "always", flag |-> "", esc |-> <<13>>],
      [key |-> "backspace", modifiers |-> "None", guard |-> "always", flag |-> "", esc |-> <<127>>],
      [key |-> "tab", modifiers |-> "Shift", guard |-> "always", flag |-> "", esc |-> <<27, 91, 90>>],
      [key |-> "backspace", modifiers |-> "Alt", guard |-> "always", flag |-> "", esc |-> <<27, 127>>],
      [key |-> "backspace", modifiers |-> "Shift", guard |-> "always", flag |-> "", esc |-> <<127>>],
      [key |-> "home", modifiers |-> "Shift", guard |-> "contains", flag |-> "ALT_SCREEN", esc |-> <<27, 91, 49, 59, 50, 72>>],
      [key |-> "end", modifiers |-> "Shift", guard |-> "contains", flag |-> "ALT_SCREEN", esc |-> <<27, 91, 49, 59, 50, 70>>],
      [key |-> "pageup", modifiers |-> "Shift", guard |-> "contains", flag |-> "ALT_SCREEN", esc |-> <<27, 91, 53, 59, 50, 126>>],
      [key |-> "pagedown", modifiers |-> "Shift", guard |-> "contains", flag |-> "ALT_SCREEN", esc |-> <<27, 91, 54, 59, 50, 126>>],
      [key |-> "home", modifiers |-> "None", guard |-> "contains", flag |-> "APP_CURSOR", esc |-> <<27, 79, 72>>],
      [key |-> "home", modifiers |-> "None", guard |-> "lacks", flag |-> "APP_CURSOR", esc |-> <<27, 91, 72>>],
      [key |-> "end", modifiers |-> "None", guard |-> "contains", flag |-> "APP_CURSOR", esc |-> <<27, 79, 70>>],
      [key |-> "end", modifiers |-> "None", guard |-> "lacks", flag |-> "APP_CURSOR", esc |-> <<27, 91, 70>>],
      [key |-> "up", modifiers |-> "None", guard |-> "contains", flag |-> "APP_CURSOR", esc |-> <<27, 79, 65>>],
      [key |-> "up", modifiers |-> "None", guard |-> "lacks", flag |-> "APP_CURSOR", esc |-> <<27, 91, 65>>],
      [key |-> "down", modifiers |-> "None", guard |-> "contains", flag |-> "APP_CURSOR", esc |-> <<27, 79, 66>>],
      [key |-> "down", modifiers |-> "None", guard |-> "lacks", flag |-> "APP_CURSOR", esc |-> <<27, 91, 66>>],
      [key |-> "right", modifiers |-> "None", guard |-> "contains", flag |-> "APP_CURSOR", esc |-> <<27, 79, 67>>],
      [key |-> "right", modifiers |-> "None", guard |-> "lacks", flag |-> "APP_CURSOR", esc |-> <<27, 91, 67>>],
      [key |-> "left", modifiers |-> "None", guard |-> "contains", flag |-> "APP_CURSOR", esc |-> <<27, 79, 68>>],
      [key |-> "left", modifiers |-> "None", guard |-> "lacks", flag |-> "APP_CURSOR", esc |-> <<27, 91, 68>>],
      [key |-> "back", modifiers |-> "None", guard |-> "always", flag |-> "", esc |-> <<127>>],
      [key |-> "insert", modifiers |-> "None", guard |-> "always", flag |-> "", esc |-> <<27, 91, 50, 126>>],
      [key |-> "delete", modifiers |-> "None", guard |-> "always", flag |-> "", esc |-> <<27, 91, 51, 126>>],
      [key |-> "pageup", modifiers |-> "None", guard |-> "always", flag |-> "", esc |-> <<27, 91, 53, 126>>],
      [key |-> "pagedown", modifiers |-> "None", guard |-> "always", flag |-> "", esc |-> <<27, 91, 54, 126>>],
      [key |-> "f1", modifiers |-> "None", guard |-> "always", flag |-> "", esc |-> <<27, 79, 80>>],
      [key |-> "f2", modifiers |-> "None", guard |-> "always", flag |-> "", esc |-> <<27, 79, 81>>],
      [key |-> "f3", modifiers |-> "None", guard |-> "always", flag |-> "", esc |-> <<27, 79, 82>>],
      [key |-> "f4", modifiers |-> "None", guard |-> "always", flag |-> "", esc |-> <<27, 79, 83>>],
      [key |-> "f5", modifiers |-> "None", guard |-> "always", flag |-> "", esc |-> <<27, 91, 49, 53, 126>>],
      [key |-> "f6", modifiers |-> "None", guard |-> "always", flag |-> "", esc |-> <<27, 91, 49, 55, 126>>],
      [key |-> "f7", modifiers |-> "None", guard |-> "always", flag |-> "", esc |-> <<27, 91, 49, 56, 126>>],
      [key |-> "f8", modifiers |-> "None", guard |-> "always", flag |-> "", esc |-> <<27, 91, 49, 57, 126>>],
      [key |-> "f9", modifiers |-> "None", guard |-> "always", flag |-> "", esc |-> <<27, 91, 50, 48, 126>>],
      [key |-> "f10", modifiers |-> "None", guard |-> "always", flag |-> "", esc |-> <<27, 91, 50, 49, 126>>],
      [key |-> "f11", modifiers |-> "None", guard |-> "always", flag |-> "", esc |-> <<27, 91, 50, 51, 126>>],
      [key |-> "f12", modifiers |-> "None", guard |-> "always", flag |-> "", esc |-> <<27, 91, 50, 52, 126>>],
      [key |-> "f13", modifiers |-> "None", guard |-> "always", flag |-> "", esc |-> <<27, 91, 50, 53, 126>>],
      [key |-> "f14", modifiers |-> "None", guard |-> "always", flag |-> "", esc |-> <<27, 91, 50, 54, 126>>],
      [key |-> "f15", modifiers |-> "None", guard |-> "always", flag |-> "", esc |-> <<27, 91, 50, 56, 126>>],
      [key |-> "f16", modifiers |-> "None", guard |-> "always", flag |-> "", esc |-> <<27, 91, 50, 57, 126>>],
      [key |-> "f17", modifiers |-> "None", guard |-> "always", flag |-> "", esc |-> <<27, 91, 51, 49, 126>>],
      [key |-> "f18", modifiers |-> "None", guard |-> "always", flag |-> "", esc |-> <<27, 91, 51, 50, 126>>],
      [key |-> "f19", modifiers |-> "None", guard |-> "always", flag |-> "", esc |-> <<27, 91, 51, 51, 126>>],
      [key |-> "f20", modifiers |-> "None", guard |-> "always", flag |-> "", esc |-> <<27, 91, 51, 52, 126>>],
      [key |-> "a", modifiers |-> "Ctrl", guard |-> "always", flag |-> "", esc |-> <<1>>],
      [key |-> "A", modifiers |-> "CtrlShift", guard |-> "always", flag |-> "", esc |-> <<1>>],
      [key |-> "b", modifiers |-> "Ctrl", guard |-> "always", flag |-> "", esc |-> <<2>>],
      [key |-> "B", modifiers |-> "CtrlShift", guard |-> "always", flag |-> "", esc |-> <<2>>],
      [key |-> "c", modifiers |-> "Ctrl", guard |-> "always", flag |-> "", esc |-> <<3>>],
      [key |-> "C", modifiers |-> "CtrlShift", guard |-> "always", flag |-> "", esc |-> <<3>>],
      [key |-> "d", modifiers |-> "Ctrl", guard |-> "always", flag |-> "", esc |-> <<4>>],
      [key |-> "D", modifiers |-> "CtrlShift", guard |-> "always", flag |-> "", esc |-> <<4>>],
      [key |-> "e", modifiers |-> "Ctrl", guard |-> "always", flag |-> "", esc |-> <<5>>],
      [key |-> "E", modifiers |-> "CtrlShift", guard |-> "always", flag |-> "", esc |-> <<5>>],
      [key |-> "f", modifiers |-> "Ctrl", guard |-> "always", flag |-> "", esc |-> <<6>>],
      [key |-> "F", modifiers |-> "CtrlShift", guard |-> "always", flag |-> "", esc |-> <<6>>],
      [key |-> "g", modifiers |-> "Ctrl", guard |-> "always", flag |-> "", esc |-> <<7>>],
      [key |-> "G", modifiers |-> "CtrlShift", guard |-> "always", flag |-> "", esc |-> <<7>>],
      [key |-> "h", modifiers |-> "Ctrl", guard |-> "always", flag |-> "", esc |-> <<8>>],
      [key |-> "H", modifiers |-> "CtrlShift", guard |-> "always", flag |-> "", esc |-> <<8>>],
      [key |-> "i", modifiers |-> "Ctrl", guard |-> "always", flag |-> "", esc |-> <<9>>],
      [key |-> "I", modifiers |-> "CtrlShift", guard |-> "always", flag |-> "", esc |-> <<9>>],
      [key |-> "j", modifiers |-> "Ctrl", guard |-> "always", flag |-> "", esc |-> <<10>>],
      [key |-> "J", modifiers |-> "CtrlShift", guard |-> "always", flag |-> "", esc |-> <<10>>],
      [key |-> "k", modifiers |-> "Ctrl", guard |-> "always", flag |-> "", esc |-> <<11>>],
      [key |-> "K", modifiers |-> "CtrlShift", guard |-> "always", flag |-> "", esc |-> <<11>>],
      [key |-> "l", modifiers |-> "Ctrl", guard |-> "always", flag |-> "", esc |-> <<12>>],
      [key |-> "L", modifiers |-> "CtrlShift", guard |-> "always", flag |-> "", esc |-> <<12>>],
      [key |-> "m", modifiers |-> "Ctrl", guard |-> "always", flag |-> "", esc |-> <<13>>],
      [key |-> "M", modifiers |-> "CtrlShift", guard |-> "always", flag |-> "", esc |-> <<13>>],
      [key |-> "n", modifiers |-> "Ctrl", guard |-> "always", flag |-> "", esc |-> <<14>>],
      [key |-> "N", modifiers |-> "CtrlShift", guard |-> "always", flag |-> "", esc |-> <<14>>],
      [key |-> "o", modifiers |-> "Ctrl", guard |-> "always", flag |-> "", esc |-> <<15>>],
      [key |-> "O", modifiers |-> "CtrlShift", guard |-> "always", flag |-> "", esc |-> <<15>>],
      [key |-> "p", modifiers |-> "Ctrl", guard |-> "always", flag |-> "", esc |-> <<16>>],
      [key |-> "P", modifiers |-> "CtrlShift", guard |-> "always", flag |-> "", esc |-> <<16>>],
      [key |-> "q", modifiers |-> "Ctrl", guard |-> "always", flag |-> "", esc |-> <<17>>],
      [key |-> "Q", modifiers |-> "CtrlShift", guard |-> "always", flag |-> "", esc |-> <<17>>],
      [key |-> "r", modifiers |-> "Ctrl", guard |-> "always", flag |-> "", esc |-> <<18>>],
      [key |-> "R", modifiers |-> "CtrlShift", guard |-> "always", flag |-> "", esc |-> <<18>>],
      [key |-> "s", modifiers |-> "Ctrl", guard |-> "always", flag |-> "", esc |-> <<19>>],
      [key |-> "S", modifiers |-> "CtrlShift", guard |-> "always", flag |-> "", esc |-> <<19>>],
      [key |-> "t", modifiers |-> "Ctrl", guard |-> "always", flag |-> "", esc |-> <<20>>],
      [key |-> "T", modifiers |-> "CtrlShift", guard |-> "always", flag |-> "", esc |-> <<20>>],
      [key |-> "u", modifiers |-> "Ctrl", guard |-> "always", flag |-> "", esc |-> <<21>>],
      [key |-> "U", modifiers |-> "CtrlShift", guard |-> "always", flag |-> "", esc |-> <<21>>],
      [key |-> "v", modifiers |-> "Ctrl", guard |-> "always", flag |-> "", esc |-> <<22>>],
      [key |-> "V", modifiers |-> "CtrlShift", guard |-> "always", flag |-> "", esc |-> <<22>>],
      [key |-> "w", modifiers |-> "Ctrl", guard |-> "always", flag |-> "", esc |-> <<23>>],
      [key |-> "W", modifiers |-> "CtrlShift", guard |-> "always", flag |-> "", esc |-> <<23>>],
      [key |-> "x", modifiers |-> "Ctrl", guard |-> "always", flag |-> "", esc |-> <<24>>],
      [key |-> "X", modifiers |-> "CtrlShift", guard |-> "always", flag |-> "", esc |-> <<24>>],
      [key |-> "y", modifiers |-> "Ctrl", guard |-> "always", flag |-> "", esc |-> <<25>>],
      [key |-> "Y", modifiers |-> "CtrlShift", guard |-> "always", flag |-> "", esc |-> <<25>>],
      [key |-> "z", modifiers |-> "Ctrl", guard |-> "always", flag |-> "", esc |-> <<26>>],
      [key |-> "Z", modifiers |-> "CtrlShift", guard |-> "always", flag |-> "", esc |-> <<26>>],
      [key |-> "@", modifiers |-> "Ctrl", guard |-> "always", flag |-> "", esc |-> <<0>>],
      [key |-> "[", modifiers |-> "Ctrl", guard |-> "always", flag |-> "", esc |-> <<27>>],
      [key |-> "\\", modifiers |-> "Ctrl", guard |-> "always", flag |-> "", esc |-> <<28>>],
      [key |-> "]", modifiers |-> "Ctrl", guard |-> "always", flag |-> "", esc |-> <<29>>],
      [key |-> "^", modifiers |-> "Ctrl", guard |-> "always", flag |-> "", esc |-> <<30>>],
      [key |-> "_", modifiers |-> "Ctrl", guard |-> "always", flag |-> "", esc |-> <<31>>],
      [key |-> "?", modifiers |-> "Ctrl", guard |-> "always", flag |-> "", esc |-> <<127>>]
    >>

\* Whether a match arm takes the keystroke.
ArmMatches(arm, key, modifiers, mode) ==
    /\ arm.key = key
    /\ arm.modifiers = modifiers
    /\ \/ arm.guard = "always"
       \/ arm.guard = "contains" /\ contains(mode, arm.flag)
       \/ arm.guard = "lacks" /\ ~contains(mode, arm.flag)

\* manual_esc_str (keys.rs:43-189): the first arm that matches, else None.
manual_esc_str(key, modifiers, mode) ==
    LET hits == {i \in DOMAIN ManualBindings :
                    ArmMatches(ManualBindings[i], key, modifiers, mode)}
    IN  IF hits = {} THEN None
        ELSE Some(ManualBindings[CHOOSE i \in hits : \A j \in hits : i <= j].esc)

\* a | b and a << n on u32; the shifts of modifier_code are 1 << 1 and
\* 1 << 2, far from the width.
RECURSIVE BitOr(_, _)
BitOr(a, b) ==
    IF a = 0 THEN b
    ELSE IF b = 0 THEN a
    ELSE Max(a % 2, b % 2) + 2 * BitOr(a \div 2, b \div 2)

Shl(a, n) == a * 2^n

\* A variant of modifier_code without the final + 1.
modifier_code_zero_based(ks) ==
    LET shift == IF ks.shift THEN BitOr(0, 1) ELSE 0
        alt == IF ks.alt THEN BitOr(shift, Shl(1, 1)) ELSE shift
        ctrl == IF ks.ctrl THEN BitOr(alt, Shl(1, 2)) ELSE alt
    IN  ctrl

\* modifier_code (keys.rs:260-272).
modifier_code(ks) ==
    LET shift == IF ks.shift THEN BitOr(0, 1) ELSE 0
        alt == IF ks.alt THEN BitOr(shift, Shl(1, 1)) ELSE shift
        ctrl == IF ks.ctrl THEN BitOr(alt, Shl(1, 2)) ELSE alt
    IN  ctrl + 1

\* format!("{}", n) of a u32: its decimal digits.
RECURSIVE Display(_)
Display(n) == IF n < 10 THEN <<48 + n>> ELSE Display(n \div 10) \o <<48 + (n % 10)>>

\* The arms of the match on the key under `if modifiers.any()` that stand
\* before the arm `_ if modifier_code == 2 => None` (keys.rs:198-221), and
\* those that stand after it (223-227); the escape string is prefix,
\* modifier code, suffix.
ModifiedBindings ==
    <<
      [key |-> "up", prefix |-> <<27, 91, 49, 59>>, suffix |-> <<65>>],
      [key |-> "down", prefix |-> <<27, 91, 49, 59>>, suffix |-> <<66>>],
      [key |-> "right", prefix |-> <<27, 91, 49, 59>>, suffix |-> <<67>>],
      [key |-> "left", prefix |-> <<27, 91, 49, 59>>, suffix |-> <<68>>],
      [key |-> "f1", prefix |-> <<27, 91, 49, 59>>, suffix |-> <<80>>],
      [key |-> "f2", prefix |-> <<27, 91, 49, 59>>, suffix |-> <<81>>],
      [key |-> "f3", prefix |-> <<27, 91, 49, 59>>, suffix |-> <<82>>],
      [key |-> "f4", prefix |-> <<27, 91, 49, 59>>, suffix |-> <<83>>],
      [key |-> "F5", prefix |-> <<27, 91, 49, 53, 59>>, suffix |-> <<126>>],
      [key |-> "f6", prefix |-> <<27, 91, 49, 55, 59>>, suffix |-> <<126>>],
      [key |-> "f7", prefix |-> <<27, 91, 49, 56, 59>>, suffix |-> <<126>>],
      [key |-> "f8", prefix |-> <<27, 91, 49, 57, 59>>, suffix |-> <<126>>],
      [key |-> "f9", prefix |-> <<27, 91, 50, 48, 59>>, suffix |-> <<126>>],
      [key |-> "f10", prefix |-> <<27, 91, 50, 49, 59>>, suffix |-> <<126>>],
      [key |-> "f11", prefix |-> <<27, 91, 50, 51, 59>>, suffix |-> <<126>>],
      [key |-> "f12", prefix |-> <<27, 91, 50, 52, 59>>, suffix |-> <<126>>],
      [key |-> "f13", prefix |-> <<27, 91, 50, 53, 59>>, suffix |-> <<126>>],
      [key |-> "f14", prefix |-> <<27, 91, 50, 54, 59>>, suffix |-> <<126>>],
      [key |-> "f15", prefix |-> <<27, 91, 50, 56, 59>>, suffix |-> <<126>>],
      [key |-> "f16", prefix |-> <<27, 91, 50, 57, 59>>, suffix |-> <<126>>],
      [key |-> "f17", prefix |-> <<27, 91, 51, 49, 59>>, suffix |-> <<126>>],
      [key |-> "f18", prefix |-> <<27, 91, 51, 50, 59>>, suffix |-> <<126>>],
      [key |-> "f19", prefix |-> <<27, 91, 51, 51, 59>>, suffix |-> <<126>>],
      [key |-> "f20", prefix |-> <<27, 91, 51, 52, 59>>, suffix |-> <<126>>]
    >>
ModifiedBindingsAfterShift ==
    <<
      [key |-> "insert", prefix |-> <<27, 91, 50, 59>>, suffix |-> <<126>>],
      [key |-> "pageup", prefix |-> <<27, 91, 53, 59>>, suffix |-> <<126>>],
      [key |-> "pagedown", prefix |-> <<27, 91, 54, 59>>, suffix |-> <<126>>],
      [key |-> "end", prefix |-> <<27, 91, 49, 59>>, suffix |-> <<70>>],
      [key |-> "home", prefix |-> <<27, 91, 49, 59>>, suffix |-> <<72>>]
    >>

\* The escape string of the arm of `table` for the key, if there is one.
ModifiedArm(table, key, code) ==
    LET hits == {i \in DOMAIN table : table[i].key = key}
    IN  IF hits = {} THEN None
        ELSE LET arm == table[CHOOSE i \in hits : \A j \in hits : i <= j]
             IN  Some(arm.prefix \o Display(code) \o arm.suffix)

\* A variant of modified_esc_str without the arm `_ if modifier_code == 2`.
modified_esc_str_shift_bound(key, code) ==
    IF ModifiedArm(ModifiedBindings, key, code).is_some
    THEN ModifiedArm(ModifiedBindings, key, code)
    ELSE ModifiedArm(ModifiedBindingsAfterShift, key, code)

\* modified_esc_str (keys.rs:197-229).
modified_esc_str(key, code) ==
    IF ModifiedArm(ModifiedBindings, key, code).is_some
    THEN ModifiedArm(ModifiedBindings, key, code)
    ELSE IF code = 2 THEN None
    ELSE ModifiedArm(ModifiedBindingsAfterShift, key, code)

\* A variant of alt_meta_binding that binds nothing.
alt_meta_binding_off(ks, modifiers, alt_is_meta) == None

\* alt_meta_binding (keys.rs:235-240).
alt_meta_binding(ks, modifiers, alt_is_meta) ==
    IF alt_is_meta /\ modifiers = "Alt" /\ is_ascii(KeyBytes(ks.key))
    THEN Some(<<27>> \o KeyBytes(ks.key))
    ELSE None

\* to_esc_str(keystroke, mode, alt_is_meta) (keys.rs:39-247).
to_esc_str(ks, mode, alt_is_meta) ==
    LET modifiers == Modifiers_new(ks)
        manual == manual_esc_str(ks.key, modifiers, mode)
        modified == IF Modifiers_any(modifiers)
                    THEN modified_esc_str(ks.key, modifier_code(ks))
                    ELSE None
    IN  IF manual.is_some THEN manual
        ELSE IF modified.is_some THEN modified
        ELSE alt_meta_binding(ks, modifiers, alt_is_meta)

\* The terminal before any key: nothing to translate.
NoKeystroke ==
    [pc |-> "idle",
     keystroke |-> [key |-> "tab", ctrl |-> FALSE, alt |-> FALSE,
                    shift |-> FALSE, cmd |-> FALSE],
     mode |-> {}, alt_is_meta |-> FALSE, esc_str |-> None, modifier_code |-> 0]


\* ------------------------------------------------------------------- state
VARIABLES
    buffer_changes,   \* ProjectDiffEditor.buffer_changes: worktree -> entry id -> Changes
    entry_order,      \* ProjectDiffEditor.entry_order: worktree -> sequence of [path, id]
    excerpts,         \* ProjectDiffEditor.excerpts, the MultiBuffer
    last,             \* what the latest call of update_excerpts had before it and queued
    passes,           \* calls of update_excerpts so far
    worktree_rescans, \* ProjectDiffEditor.worktree_rescans: worktree -> task
    tasks,            \* the rescan tasks spawned so far, by task number
    project,          \* the Project: its worktrees and their files with a git status
    terminal,         \* a terminal of the workspace: the keystroke it translates
    loops             \* the cursors of a loop of update_excerpts that is running

\* The state of the project diff editor and of its project.
editor_vars == <<buffer_changes, entry_order, excerpts, last, passes,
                 worktree_rescans, tasks, project>>

vars == <<editor_vars, terminal, loops>>

\* What the scheduler adds to the state of the reconciler.
sched_vars == <<worktree_rescans, tasks, project>>

NoPass ==
    [kind |-> "none", worktree_id |-> 0,
     new_changes |-> EmptyMap, new_entry_order |-> <<>>,
     old_has_order |-> FALSE, old_order |-> <<>>,
     old_has_changes |-> FALSE, old_changes |-> EmptyMap,
     old_excerpts |-> <<>>,
     new_excerpt_hunks |-> EmptyMap, excerpts_to_remove |-> <<>>,
     excerpt_to_expand |-> EmptyMap]

\* A rescan task of worktree id as cx.spawn returns it (project_diff.rs:192):
\* waiting for the debounce timer.  entries, failed, files and
\* diff_recalculations (the buffers whose diff recalculation the task still
\* awaits, project_diff.rs:271) are the task's locals; applied_at and
\* stored_at_apply record its call of update_excerpts, and
\* recalculate_diff_calls the buffers it called recalculate_diff on.
NewTask(id) ==
    [id |-> id, pc |-> "timer", cancelled |-> FALSE,
     entries |-> {}, failed |-> {}, files |-> EmptyMap,
     diff_recalculations |-> {}, recalculate_diff_calls |-> {},
     applied_at |-> 0, stored_at_apply |-> FALSE]

\* Dropping a gpui Task cancels it unless it has finished; the locals of a
\* cancelled task are dropped with it.
DropTask(ts, t) == [ts EXCEPT ![t].cancelled = (ts[t].pc # "done"),
                              ![t].diff_recalculations = {},
                              ![t].recalculate_diff_calls = {}]

\* A variant of schedule_worktree_rescan that lets the replaced task run on.
schedule_worktree_rescan_detached(ts, rescans, id) ==
    [tasks |-> Append(ts, NewTask(id)),
     worktree_rescans |-> MapPut(rescans, id, Len(ts) + 1)]

\* ProjectDiffEditor::schedule_worktree_rescan (project_diff.rs:188-328):
\* spawns the task and stores it under the worktree id; the task that
\* HashMap::insert replaces is dropped.
schedule_worktree_rescan(ts, rescans, id) ==
    LET dropped == IF Has(rescans, id) THEN DropTask(ts, rescans[id]) ELSE ts
    IN  [tasks |-> Append(dropped, NewTask(id)),
         worktree_rescans |-> MapPut(rescans, id, Len(ts) + 1)]

\* The worktrees the project has when the editor is created, and a project
\* none of whose files has a git status.
InitialWorktrees == {1}
NoFiles == [w \in Worktrees |-> EmptyMap]

\* ProjectDiffEditor::new (project_diff.rs:157-169): empty maps, and
\* schedule_rescan_all (172-186) schedules a rescan of every worktree.
EditorInit ==
    /\ buffer_changes = EmptyMap
    /\ entry_order = EmptyMap
    /\ excerpts = NewMultiBuffer
    /\ last = NoPass
    /\ passes = 0
    /\ project = [worktrees |-> InitialWorktrees, files |-> NoFiles]
    /\ LET s == schedule_worktree_rescan(<<>>, EmptyMap, 1)
       IN  tasks = s.tasks /\ worktree_rescans = s.worktree_rescans

\* No loop of update_excerpts is running.
NoLoop == [kind |-> "none", pc |-> "idle", outer |-> <<>>, cursor |-> <<>>,
           o |-> 1, c |-> 1]

\* The workspace at the start: the editor just constructed, no key pressed.
Init == EditorInit /\ terminal = NoKeystroke /\ loops = NoLoop

\* ------------------------------------------------------------------ inputs
\* A variant of NewEntryOrder that delivers the entries in the reverse order.
NewEntryOrderUnsorted(w, fs) ==
    LET keys == SortedKeys(DOMAIN fs)
        n == Len(keys)
    IN  [i \in DOMAIN keys |-> [path |-> keys[n + 1 - i], id |-> EntryId(w, keys[n + 1 - i])]]

\* What a rescan delivers for the files fs (path -> hunks) of worktree w:
\* new_entries sorted by path (project_diff.rs:289-294) and one Changes per
\* entry (project_diff.rs:275-287).
NewEntryOrder(w, fs) ==
    LET keys == SortedKeys(DOMAIN fs)
    IN  [i \in DOMAIN keys |-> [path |-> keys[i], id |-> EntryId(w, keys[i])]]

NewChanges(w, fs) ==
    LET ids == {EntryId(w, p) : p \in DOMAIN fs}
    IN  [id \in ids |->
            LET p == CHOOSE q \in DOMAIN fs : EntryId(w, q) = id
            IN  [buffer |-> id, hunks |-> fs[p]]]

\* Sorted, non-touching lists of at most n hunks over the rows `rows`
\* (what git_diff_hunks_in_row_range yields: maximal runs of changed rows).
HunksOver(rows) == {Hunk(s, e) : s \in rows, e \in rows} \cap
                   {h \in [start : rows, end : rows] : h.start <= h.end}

HunkLists(rows, n) ==
    UNION {{hs \in [1..k -> HunksOver(rows)] :
                \A i \in 1..(k - 1) : hs[i].end < hs[i + 1].start} : k \in 0..n}

\* All assignments of hunk lists to some of the paths.
FileStates(paths, lists) == UNION {[ps -> lists] : ps \in SUBSET paths}

\* -------------------------------------------------------------- operations
\* A variant of SwapIn that keeps the entries of the stored Changes map that
\* the new one does not replace.
SwapInMerged(map, worktree_id, new) ==
    IF Has(map, worktree_id) /\ DOMAIN new # {} /\ DOMAIN map[worktree_id] # {}
    THEN MapPut(map, worktree_id,
                [k \in DOMAIN map[worktree_id] \cup DOMAIN new |->
                    IF k \in DOMAIN new THEN new[k] ELSE map[worktree_id][k]])
    ELSE MapPut(map, worktree_id, new)

\* A variant of SwapIn that leaves the new value as the only entry of the map.
SwapInAlone(map, worktree_id, new) == MapPut(EmptyMap, worktree_id, new)

\* std::mem::swap(self.<map>.entry(worktree_id).or_default(), &mut new)
\* (project_diff.rs:895-904): the map holds the new value under worktree_id;
\* the value swapped out is dropped when update_excerpts returns.
SwapIn(map, worktree_id, new) == MapPut(map, worktree_id, new)

\* ProjectDiffEditor::update_excerpts(worktree_id, new_changes, new_entry_order)
\* (project_diff.rs:330-905).
update_excerpts(worktree_id, new_changes, new_entry_order) ==
    LET steady == Has(entry_order, worktree_id)
        multi_buffer == [excerpts EXCEPT !.calls = <<>>]
        current_entries == IF Has(buffer_changes, worktree_id)
                           THEN buffer_changes[worktree_id] ELSE EmptyMap
        plan == IF steady
                THEN PlanPass(entry_order[worktree_id], current_entries, excerpts,
                              new_entry_order, new_changes)
                ELSE InitialPass
    IN  /\ excerpts' = IF steady THEN ApplyPass(multi_buffer, plan)
                       ELSE PushAll(multi_buffer, new_entry_order, new_changes, 1)
        /\ buffer_changes' = SwapIn(buffer_changes, worktree_id, new_changes)
        /\ entry_order' = SwapIn(entry_order, worktree_id, new_entry_order)
        /\ last' = [kind |-> IF steady THEN "steady" ELSE "bootstrap",
                    worktree_id |-> worktree_id,
                    new_changes |-> new_changes,
                    new_entry_order |-> new_entry_order,
                    old_has_order |-> steady,
                    old_order |-> IF steady THEN entry_order[worktree_id] ELSE <<>>,
                    old_has_changes |-> Has(buffer_changes, worktree_id),
                    old_changes |-> current_entries,
                    old_excerpts |-> excerpts.excerpts,
                    new_excerpt_hunks |-> plan.new_excerpt_hunks,
                    excerpts_to_remove |-> plan.excerpts_to_remove,
                    excerpt_to_expand |-> plan.excerpt_to_expand]
        /\ passes' = passes + 1

\* The handler of project::Event::WorktreeRemoved(id) (project_diff.rs:100-102).
WorktreeRemoved(id) ==
    /\ buffer_changes' = MapRemove(buffer_changes, id)
    /\ last' = [NoPass EXCEPT !.kind = "WorktreeRemoved", !.worktree_id = id]
    /\ UNCHANGED <<entry_order, excerpts, passes>>

\* The handler of project::Event::Closed (project_diff.rs:137-139).
Closed ==
    /\ buffer_changes' = EmptyMap
    /\ last' = [NoPass EXCEPT !.kind = "Closed"]
    /\ UNCHANGED <<entry_order, excerpts, passes>>

\* A rescan of worktree w that found the files fs hands its result to
\* update_excerpts (project_diff.rs:300-302).
Rescan(w, fs) ==
    /\ update_excerpts(w, NewChanges(w, fs), NewEntryOrder(w, fs))
    /\ UNCHANGED <<sched_vars, terminal, loops>>

\* The hunk lists of Spec and SpecReconcile: no hunk, or one single-row
\* hunk on the first or on the last row of the buffer.
EdgeHunkLists == {<<>>, <<Hunk(0, 0)>>, <<Hunk(MaxRow, MaxRow)>>}

\* Passes of one worktree over NumPaths files.
ReconcilePass ==
    /\ passes < MaxPasses
    /\ \E fs \in FileStates(Paths, EdgeHunkLists) : Rescan(1, fs)

SpecReconcile == Init /\ [][ReconcilePass]_vars

\* Passes of one worktree over one file with every hunk list of at most
\* MaxHunks hunks.
HunkPass ==
    /\ passes < MaxHunkPasses
    /\ \E fs \in FileStates({1}, HunkLists(0..MaxRow, MaxHunks)) : Rescan(1, fs)

SpecHunks == Init /\ [][HunkPass]_vars

\* Longer runs of passes of one worktree over one file, with the hunks drawn
\* from the first row, a middle row and the last row of the buffer.
SparseRows == {0, MaxRow - 2, MaxRow}

LongHunkPass ==
    /\ passes < MaxLongPasses
    /\ \E fs \in FileStates({1}, HunkLists(SparseRows, MaxHunks)) : Rescan(1, fs)

SpecLongHunks == Init /\ [][LongHunkPass]_vars

\* The project diff editor under project events: rescans of every worktree
\* deliver their result at any time, worktrees are removed, the project closes.
RescanApplied ==
    /\ passes < MaxPasses
    /\ \E w \in Worktrees :
         \E fs \in FileStates(1..NumEventPaths, EdgeHunkLists) : Rescan(w, fs)

Next ==
    \/ RescanApplied
    \/ \E w \in Worktrees : WorktreeRemoved(w) /\ UNCHANGED <<sched_vars, terminal, loops>>
    \/ Closed /\ UNCHANGED <<sched_vars, terminal, loops>>

Spec == Init /\ [][Next]_vars

\* The first reconciliation of each worktree, under project events.
BootHunkLists == EdgeHunkLists \cup {<<Hunk(0, 0), Hunk(MaxRow, MaxRow)>>}

FirstRescanApplied ==
    \E w \in Worktrees :
        /\ ~Has(entry_order, w)
        /\ \E fs \in FileStates(1..NumEventPaths, BootHunkLists) : Rescan(w, fs)

BootstrapNext ==
    \/ FirstRescanApplied
    \/ \E w \in Worktrees : WorktreeRemoved(w) /\ UNCHANGED <<sched_vars, terminal, loops>>
    \/ Closed /\ UNCHANGED <<sched_vars, terminal, loops>>

SpecBootstrap == Init /\ [][BootstrapNext]_vars

\* --------------------------------------------------------------- scheduler
\* The project events the editor subscribes to (project_diff.rs:91-146) and
\* the steps of a rescan task (188-328), over NumSchedPaths files a worktree.
SchedFileStates == FileStates(1..NumSchedPaths, EdgeHunkLists)

Schedule(id) ==
    LET s == schedule_worktree_rescan(tasks, worktree_rescans, id)
    IN  tasks' = s.tasks /\ worktree_rescans' = s.worktree_rescans

\* project::Event::WorktreeAdded(id) (project_diff.rs:94-99, 143-145): a
\* worktree the project did not have before, with the files fs.
ProjectWorktreeAdded(id, fs) ==
    /\ Len(tasks) < MaxTasks
    /\ id \notin project.worktrees
    /\ ~Has(worktree_rescans, id)
    /\ project' = [worktrees |-> project.worktrees \cup {id},
                   files |-> [project.files EXCEPT ![id] = fs]]
    /\ Schedule(id)
    /\ last' = [NoPass EXCEPT !.kind = "WorktreeAdded", !.worktree_id = id]
    /\ UNCHANGED <<buffer_changes, entry_order, excerpts, passes, terminal, loops>>

\* project::Event::WorktreeUpdatedEntries, WorktreeUpdatedGitRepositories or
\* DeletedEntry of worktree id (project_diff.rs:103-136, 143-145): the files
\* with a git status and their hunks are now fs.
ProjectWorktreeUpdated(id, fs) ==
    /\ Len(tasks) < MaxTasks
    /\ id \in project.worktrees
    /\ project' = [project EXCEPT !.files[id] = fs]
    /\ Schedule(id)
    /\ last' = [NoPass EXCEPT !.kind = "WorktreeUpdated", !.worktree_id = id]
    /\ UNCHANGED <<buffer_changes, entry_order, excerpts, passes, terminal, loops>>

\* The project drops worktree id and emits project::Event::WorktreeRemoved(id).
ProjectWorktreeRemoved(id) ==
    /\ id \in project.worktrees
    /\ project' = [worktrees |-> project.worktrees \ {id},
                   files |-> [project.files EXCEPT ![id] = EmptyMap]]
    /\ WorktreeRemoved(id)
    /\ UNCHANGED <<worktree_rescans, tasks, terminal, loops>>

\* The project emits project::Event::Closed.
ProjectClosed ==
    /\ last.kind # "Closed"
    /\ Closed
    /\ UNCHANGED <<sched_vars, terminal, loops>>

\* A task the executor still polls.
Runnable(t) == t \in DOMAIN tasks /\ ~tasks[t].cancelled

\* The debounce timer fired; the task lists the entries of its worktree that
\* have a git status (project_diff.rs:193-219), none if the worktree is gone.
Enumerate(t) ==
    /\ Runnable(t)
    /\ tasks[t].pc = "timer"
    /\ tasks' = [tasks EXCEPT
                   ![t].pc = "opening",
                   ![t].entries = IF tasks[t].id \in project.worktrees
                                  THEN DOMAIN project.files[tasks[t].id] ELSE {}]
    /\ UNCHANGED <<buffer_changes, entry_order, excerpts, last, passes,
                   worktree_rescans, project, terminal, loops>>

\* The hunks of an opened buffer of worktree id.
BufferHunks(id, p) ==
    IF id \in project.worktrees /\ p \in DOMAIN project.files[id]
    THEN project.files[id][p] ELSE <<>>

\* The buffers are opened, those of `failed` fail and are dropped, and the
\* snapshots of the others are taken (project_diff.rs:220-270).
Load(t, failed) ==
    /\ Runnable(t)
    /\ tasks[t].pc = "opening"
    /\ failed \subseteq tasks[t].entries
    /\ tasks' = [tasks EXCEPT
                   ![t].pc = "loaded",
                   ![t].failed = failed,
                   ![t].files = [p \in tasks[t].entries \ failed |->
                                    BufferHunks(tasks[t].id, p)]]
    /\ UNCHANGED <<buffer_changes, entry_order, excerpts, last, passes,
                   worktree_rescans, project, terminal, loops>>

\* The hunks are collected, the entries sorted (project_diff.rs:272-297) and
\* the result is handed to update_excerpts (299-302); then recalculate_diff
\* is called on every buffer of the document (303-310) and the operations
\* it returns are collected in diff_recalculations (311-313).  started are
\* the buffers for which recalculate_diff returned Some: any of them.
Apply(t) ==
    /\ Runnable(t)
    /\ tasks[t].pc = "loaded"
    /\ update_excerpts(tasks[t].id, NewChanges(tasks[t].id, tasks[t].files),
                       NewEntryOrder(tasks[t].id, tasks[t].files))
    /\ \E started \in SUBSET all_buffers(excerpts') :
           tasks' = [tasks EXCEPT
                       ![t].pc = "recalculating",
                       ![t].recalculate_diff_calls = all_buffers(excerpts'),
                       ![t].diff_recalculations = started,
                       ![t].applied_at = passes + 1,
                       ![t].stored_at_apply = (worktree_rescans[tasks[t].id] = t)]
    /\ UNCHANGED <<worktree_rescans, project, terminal, loops>>

\* The buffers of the files of every worktree.
Buffers == {EntryId(w, p) : w \in Worktrees, p \in Paths}

\* The recalculation of the diff of buffer b ends: diff_recalculations.next()
\* yields Some(()) to the waiting task (project_diff.rs:321-323).
DiffRecalculated(t, b) ==
    /\ Runnable(t)
    /\ tasks[t].pc = "recalculating"
    /\ b \in tasks[t].diff_recalculations
    /\ tasks' = [tasks EXCEPT ![t].diff_recalculations = @ \ {b}]
    /\ UNCHANGED <<buffer_changes, entry_order, excerpts, last, passes,
                   worktree_rescans, project, terminal, loops>>

\* diff_recalculations.next() yields None: every recalculation has ended and
\* with them the task (project_diff.rs:319-326).
Finish(t) ==
    /\ Runnable(t)
    /\ tasks[t].pc = "recalculating"
    /\ tasks[t].diff_recalculations = {}
    /\ tasks' = [tasks EXCEPT ![t].pc = "done", ![t].entries = {},
                              ![t].failed = {}, ![t].files = EmptyMap,
                              ![t].recalculate_diff_calls = {}]
    /\ UNCHANGED <<buffer_changes, entry_order, excerpts, last, passes,
                   worktree_rescans, project, terminal, loops>>

\* The executor polls task t, which runs on to its next await.
RunTask(t) ==
    \/ Enumerate(t)
    \/ \E failed \in SUBSET Paths : Load(t, failed)
    \/ Apply(t)
    \/ \E b \in Buffers : DiffRecalculated(t, b)
    \/ Finish(t)

TaskStep == \E t \in 1..MaxTasks : RunTask(t)

SchedNext ==
    \/ \E id \in Worktrees : \E fs \in SchedFileStates : ProjectWorktreeAdded(id, fs)
    \/ \E id \in Worktrees : \E fs \in SchedFileStates : ProjectWorktreeUpdated(id, fs)
    \/ \E id \in Worktrees : ProjectWorktreeRemoved(id)
    \/ ProjectClosed
    \/ TaskStep

\* The editor with its scheduler: events arrive and tasks run at any time.
SpecSched == Init /\ [][SchedNext]_vars

\* One worktree of NumLoadPaths files, each with one hunk when it has a git
\* status: its entries change, it is removed, the project closes, tasks run.
LoadFileStates ==
    FileStates(1..NumLoadPaths, {<<Hunk(0, 0)>>, <<Hunk(MaxRow, MaxRow)>>})

LoadNext ==
    \/ \E fs \in LoadFileStates : ProjectWorktreeUpdated(1, fs)
    \/ ProjectWorktreeRemoved(1)
    \/ ProjectClosed
    \/ TaskStep

SpecLoad == Init /\ [][LoadNext]_vars

\* The wait of task t for its diff recalculations (project_diff.rs:319-325).
AwaitRecalculations(t) ==
    \/ \E b \in Buffers : DiffRecalculated(t, b)
    \/ Finish(t)

\* One worktree of NumLoadPaths files, each with one hunk when it has a git
\* status: its entries change and the tasks run; a diff recalculation that
\* was started ends, and a task that waits for them is polled again.
RecalcFileStates == FileStates(1..NumLoadPaths, {<<Hunk(0, 0)>>})

RecalcNext ==
    \/ \E fs \in RecalcFileStates : ProjectWorktreeUpdated(1, fs)
    \/ TaskStep

SpecRecalc ==
    /\ Init
    /\ [][RecalcNext]_vars
    /\ \A t \in 1..MaxTasks : WF_vars(AwaitRecalculations(t))

\* The steps of task t from its debounce timer to its apply step
\* (project_diff.rs:193-314).
RunToApply(t) ==
    \/ Enumerate(t)
    \/ \E failed \in SUBSET Paths : Load(t, failed)
    \/ Apply(t)

\* Worktrees of NumSchedPaths files, each with one hunk when it has a git
\* status: worktrees are added and their entries change in bursts, and the
\* executor goes on polling every task it has not dropped: the timer of the
\* task fires, its buffers are opened or fail to open, its result is applied.
CoalesceFileStates == FileStates(1..NumSchedPaths, {<<Hunk(0, 0)>>})

CoalesceNext ==
    \/ \E id \in Worktrees : \E fs \in CoalesceFileStates : ProjectWorktreeAdded(id, fs)
    \/ \E id \in Worktrees : \E fs \in CoalesceFileStates : ProjectWorktreeUpdated(id, fs)
    \/ TaskStep

SpecCoalesce ==
    /\ Init
    /\ [][CoalesceNext]_vars
    /\ \A t \in 1..MaxTasks : WF_vars(RunToApply(t))

\* A keystroke arrives at a terminal in some mode, under some setting of
\* alt_is_meta; the editor of the same workspace is as it was constructed.
KeysInit ==
    /\ EditorInit
    /\ \E ks \in Keystrokes : \E mode \in TermModes : \E meta \in BOOLEAN :
           terminal = [NoKeystroke EXCEPT !.pc = "input", !.keystroke = ks,
                                          !.mode = mode, !.alt_is_meta = meta]
    /\ loops = NoLoop

\* The terminal translates the keystroke: to_esc_str (keys.rs:39-247).
ToEscStr ==
    /\ terminal.pc = "input"
    /\ terminal' = [terminal EXCEPT
                      !.pc = "to_esc_str",
                      !.esc_str = to_esc_str(terminal.keystroke, terminal.mode,
                                             terminal.alt_is_meta)]
    /\ UNCHANGED <<editor_vars, loops>>

\* modifier_code is called on the keystroke (keys.rs:260-272).
ModifierCode ==
    /\ terminal.pc = "input"
    /\ terminal' = [terminal EXCEPT
                      !.pc = "modifier_code",
                      !.modifier_code = modifier_code(terminal.keystroke)]
    /\ UNCHANGED <<editor_vars, loops>>

KeysNext == ToEscStr \/ ModifierCode

SpecKeys == KeysInit /\ [][KeysNext]_vars

\* ------------------------------------------- the loops of update_excerpts
\* What one iteration of a `loop` of update_excerpts does with its cursors:
\* "leave" ends the loop (continue of the enclosing for, or break), "next"
\* takes one element off the peekable cursor and loops again, "next_leave"
\* does both.

\* A variant of the path-merge loop that does not take the new entry it queued.
merge_loop_arm_keeps_entry(current_path, new_order, ni) ==
    IF ni > Len(new_order) THEN "leave"
    ELSE LET o == compare_paths(current_path, new_order[ni])
         IN  IF o = "Less" THEN "leave"
             ELSE IF o = "Greater" THEN "stay"
             ELSE "next_leave"

\* The path-merge loop of one entry of current_order (project_diff.rs:366-812)
\* against new_order_entries.peek().
merge_loop_arm(current_path, new_order, ni) ==
    IF ni > Len(new_order) THEN "leave"                        \* 806-810
    ELSE LET o == compare_paths(current_path, new_order[ni])
         IN  IF o = "Less" THEN "leave"                        \* 373-377
             ELSE IF o = "Greater" THEN "next"                 \* 378-412
             ELSE "next_leave"                                 \* 413-803

\* The hunk-against-hunk loop of one new hunk (project_diff.rs:425-523)
\* against current_hunks.peek().
hunk_loop_arm(new_hunk, current_hunks, ch) ==
    IF ch > Len(current_hunks) THEN "leave"                    \* 518-521
    ELSE LET current_hunk == current_hunks[ch]
             s == Cmp(current_hunk.start, new_hunk.start)
             e == Cmp(current_hunk.end, new_hunk.end)
         IN  IF s = "Equal" /\ e = "Equal" THEN "next_leave"   \* 443-451
             ELSE IF s = "Equal" \/ e = "Equal" THEN "leave"   \* 452-457
             ELSE IF s # e THEN "leave"                        \* 458-469
             ELSE IF s = "Less"
             THEN IF is_le(Cmp(current_hunk.start, new_hunk.end))
                  THEN "leave" ELSE "next"                     \* 470-492
             ELSE IF is_ge(Cmp(current_hunk.end, new_hunk.start))
                  THEN "leave" ELSE "next"                     \* 493-515

\* The hunk-against-excerpt loop of one changed hunk (project_diff.rs:529-768)
\* against current_excerpts.peek().
excerpt_loop_arm(new_hunk, current_excerpts, ce) ==
    IF ce > Len(current_excerpts) THEN "leave"                 \* 726-766
    ELSE LET ex == current_excerpts[ce]
             s == Cmp(ex.start, new_hunk.start)
             e == Cmp(ex.end, new_hunk.end)
         IN  IF is_le(s) /\ is_ge(e) THEN "leave"              \* 553-564
             ELSE IF is_ge(s) /\ is_le(e) THEN "leave"         \* 565-603
             ELSE IF s = "Less" THEN "leave"                   \* 604-674
             ELSE IF is_ge(Cmp(ex.end, new_hunk.start))
                  THEN "leave" ELSE "next"                     \* 682-723

\* The arm the running loop takes for the item under its for loop.
LoopArm(l) ==
    IF l.kind = "path_merge" THEN merge_loop_arm(l.outer[l.o], l.cursor, l.c)
    ELSE IF l.kind = "hunk_against_hunk" THEN hunk_loop_arm(l.outer[l.o], l.cursor, l.c)
    ELSE excerpt_loop_arm(l.outer[l.o], l.cursor, l.c)

\* One iteration of the running loop; the for loop around it ends when its
\* last item has left the loop.
LoopIteration(kind) ==
    /\ loops.kind = kind
    /\ loops.pc = "loop"
    /\ LET arm == LoopArm(loops)
           o == IF arm \in {"leave", "next_leave"} THEN loops.o + 1 ELSE loops.o
           c == IF arm \in {"next", "next_leave"} THEN loops.c + 1 ELSE loops.c
       IN  loops' = [loops EXCEPT !.o = o, !.c = c,
                                  !.pc = IF o > Len(loops.outer) THEN "done" ELSE "loop"]
    /\ UNCHANGED <<editor_vars, terminal>>

PathMergeIteration == LoopIteration("path_merge")
HunkIteration == LoopIteration("hunk_against_hunk")
ExcerptIteration == LoopIteration("hunk_against_excerpt")

\* The inputs of the loops: paths in any order, and ranges of rows (hunks,
\* contexts of excerpts) in any order, overlapping or not.
PathSeqs == UNION {[1..k -> Paths] : k \in 0..NumPaths}
LoopRanges == {r \in [start : 0..MaxLoopRow, end : 0..MaxLoopRow] : r.start <= r.end}
RangeSeqs == UNION {[1..k -> LoopRanges] : k \in 0..MaxHunks}

StartLoop(kind, outer, cursor) ==
    [kind |-> kind, pc |-> IF outer = <<>> THEN "done" ELSE "loop",
     outer |-> outer, cursor |-> cursor, o |-> 1, c |-> 1]

\* update_excerpts has entered one of its loops, on any input.
LoopsInit ==
    /\ EditorInit
    /\ terminal = NoKeystroke
    /\ \/ \E current_order \in PathSeqs : \E new_order \in PathSeqs :
              loops = StartLoop("path_merge", current_order, new_order)
       \/ \E new_hunks \in RangeSeqs : \E current_hunks \in RangeSeqs :
              loops = StartLoop("hunk_against_hunk", new_hunks, current_hunks)
       \/ \E with_updates \in RangeSeqs : \E current_excerpts \in RangeSeqs :
              loops = StartLoop("hunk_against_excerpt", with_updates, current_excerpts)

LoopsNext == PathMergeIteration \/ HunkIteration \/ ExcerptIteration

\* The loops run to their end: update_excerpts is one synchronous call.
SpecLoops == LoopsInit /\ [][LoopsNext]_vars /\ WF_vars(LoopsNext)

\* ------------------------------------------------------------------ claims
\* The state is the one a call of update_excerpts has just left.
AfterPass == last.kind \in {"bootstrap", "steady"}
AfterSteadyPass == last.kind = "steady"

\* The worktree of the latest pass, the document, and the file of a buffer.
LastW == last.worktree_id
Doc == excerpts.excerpts
WorktreeOf(id) == ((id - 1) \div NumPaths) + 1
PathOf(id) == ((id - 1) % NumPaths) + 1

\* The excerpts of one buffer in a document, and the ids in a document.
ExcerptsOf(exs, buffer) == SelectSeq(exs, LAMBDA x : x.buffer = buffer)
IdsOf(exs) == {exs[i].id : i \in DOMAIN exs}

\* The snapshot the latest pass stored: its files and their hunks.
NewFiles == {e.id : e \in Range(entry_order[LastW])}
NewHunks(id) == IF Has(buffer_changes[LastW], id)
                THEN buffer_changes[LastW][id].hunks ELSE <<>>
\* The snapshot the latest pass replaced.
OldFiles == {e.id : e \in Range(last.old_order)}
OldHunks(id) == IF Has(last.old_changes, id) THEN last.old_changes[id].hunks ELSE <<>>

\* The files of the latest pass's worktree that have an excerpt.
FilesWithExcerpts == {b \in {Doc[i].buffer : i \in DOMAIN Doc} : WorktreeOf(b) = LastW}

\* The buffers the latest pass queued for insertion, the ids it queued for
\* removal and the ids it queued for expansion.
QueuedBuffers ==
    UNION {{last.new_excerpt_hunks[k][i].buffer : i \in DOMAIN last.new_excerpt_hunks[k]} :
              k \in DOMAIN last.new_excerpt_hunks}
QueuedRemovals == Range(last.excerpts_to_remove)
QueuedExpansions ==
    UNION {Range(last.excerpt_to_expand[k]) : k \in DOMAIN last.excerpt_to_expand}
NothingQueued ==
    /\ DOMAIN last.new_excerpt_hunks = {}
    /\ last.excerpts_to_remove = <<>>
    /\ DOMAIN last.excerpt_to_expand = {}

\* A context range that pads a hunk by the default context on both sides,
\* up to the clipping at row 0 and at the last row.
Pads(x, h) ==
    /\ x.start <= saturating_sub(h.start, DEFAULT_MULTIBUFFER_CONTEXT)
    /\ x.end >= Min(h.end + DEFAULT_MULTIBUFFER_CONTEXT, MaxRow)
PadsExactly(x, h) ==
    /\ x.start = saturating_sub(h.start, DEFAULT_MULTIBUFFER_CONTEXT)
    /\ x.end = Min(h.end + DEFAULT_MULTIBUFFER_CONTEXT, MaxRow)
\* A hunk that lies inside a context range.
Covers(x, h) == x.start <= h.start /\ h.end <= x.end

\* C1. Completeness: after a pass, the files of the worktree that have an
\* excerpt are exactly the files of the new snapshot with a non-empty hunk list.
C1_Completeness ==
    AfterPass => FilesWithExcerpts = {id \in NewFiles : NewHunks(id) # <<>>}

\* C2. Order preservation: after a pass, the excerpts of the worktree's files
\* stand in the document in ascending path order.
C2_OrderPreservation ==
    AfterPass =>
        \A i, j \in DOMAIN Doc :
            (i < j /\ WorktreeOf(Doc[i].buffer) = LastW /\ WorktreeOf(Doc[j].buffer) = LastW)
                => PathOf(Doc[i].buffer) <= PathOf(Doc[j].buffer)

\* C3. Idempotence: a pass whose snapshot equals the snapshot stored by the
\* pass before it queues no insertion, no removal and no expansion, and
\* leaves the document as it was.
C3_Idempotence ==
    (/\ AfterSteadyPass
     /\ last.old_has_changes
     /\ last.old_order = entry_order[LastW]
     /\ last.old_changes = buffer_changes[LastW])
        => (NothingQueued /\ Doc = last.old_excerpts)

\* The new snapshot differs from the old one in the hunk list of file F only.
OnlyHunksOfChanged(F) ==
    /\ last.old_has_changes
    /\ last.old_order = entry_order[LastW]
    /\ DOMAIN last.old_changes = DOMAIN buffer_changes[LastW]
    /\ F \in NewFiles
    /\ OldHunks(F) # NewHunks(F)
    /\ \A id \in NewFiles \ {F} : OldHunks(id) = NewHunks(id)

\* No excerpt of buffer b was inserted, removed or expanded by the latest pass.
Undisturbed(b) ==
    /\ ExcerptsOf(Doc, b) = ExcerptsOf(last.old_excerpts, b)
    /\ b \notin QueuedBuffers
    /\ IdsOf(ExcerptsOf(last.old_excerpts, b)) \cap (QueuedRemovals \cup QueuedExpansions) = {}

\* C4. Minimal churn: a steady-state pass whose snapshot differs from the
\* previous one only in the hunks of one file F inserts, removes and expands
\* no excerpt of any other file.
C4_MinimalChurn ==
    AfterSteadyPass =>
        \A F \in NewFiles :
            OnlyHunksOfChanged(F) =>
                \A b \in ({Doc[i].buffer : i \in DOMAIN Doc}
                          \cup {last.old_excerpts[i].buffer : i \in DOMAIN last.old_excerpts}
                          \cup QueuedBuffers) \ {F} : Undisturbed(b)

\* C5. Hunk coverage: after a pass, every hunk of every file of the new
\* snapshot lies inside the context range of an excerpt of the file's buffer.
C5_HunkCoverage ==
    AfterPass =>
        \A id \in NewFiles :
            \A k \in DOMAIN NewHunks(id) :
                \E i \in DOMAIN Doc :
                    Doc[i].buffer = id /\ Covers(Doc[i], NewHunks(id)[k])

\* C6. After a pass, a file of the worktree that is absent from the new
\* snapshot, or whose hunk list in it is empty, has no excerpt.
C6_NoExcerptWithoutHunks ==
    AfterPass =>
        \A b \in FilesWithExcerpts : b \in NewFiles /\ NewHunks(b) # <<>>

\* The hunks of its file that an excerpt shows: those inside its context range.
ShownHunks(x) ==
    {h \in Range(NewHunks(x.buffer)) : Covers(x, h)}

\* C7 as claimed. Padding invariant: after a pass, every excerpt pads the
\* hunks it shows by the default context above and below, except where
\* clipped by row 0 or by the last row.  Stated in its weakest form: of the
\* hunks an excerpt shows, at least one is padded so.
C7_PaddingInvariant ==
    AfterPass =>
        \A i \in DOMAIN Doc :
            (WorktreeOf(Doc[i].buffer) = LastW /\ ShownHunks(Doc[i]) # {})
                => \E h \in ShownHunks(Doc[i]) : Pads(Doc[i], h)

\* The excerpts the latest pass created.
CreatedExcerpts == {i \in DOMAIN Doc : Doc[i].id \notin IdsOf(last.old_excerpts)}

\* C7 as amended. Padding at insertion: every excerpt a pass creates belongs
\* to a file of the new snapshot and has, right after that pass, a context
\* range that starts at least the default context above and ends at least
\* the default context below the hunk it was created for, except where
\* clipped at row 0 or at the last row.
C7_PaddingAtInsertion ==
    AfterPass =>
        \A i \in CreatedExcerpts :
            /\ Doc[i].buffer \in NewFiles
            /\ \E h \in Range(NewHunks(Doc[i].buffer)) : Pads(Doc[i], h)

\* A steady-state pass has created an excerpt whose padded range is clipped
\* at the last row, and one whose padded range is clipped nowhere.
C7_Witness ==
    /\ AfterSteadyPass
    /\ \E i \in CreatedExcerpts :
           \E h \in Range(NewHunks(Doc[i].buffer)) :
               /\ PadsExactly(Doc[i], h)
               /\ h.end + DEFAULT_MULTIBUFFER_CONTEXT > MaxRow
    /\ \E i \in CreatedExcerpts :
           \E h \in Range(NewHunks(Doc[i].buffer)) :
               /\ PadsExactly(Doc[i], h)
               /\ h.start >= DEFAULT_MULTIBUFFER_CONTEXT
               /\ h.end + DEFAULT_MULTIBUFFER_CONTEXT <= MaxRow

\* C8. A file with one hunk, shown by its one excerpt, whose hunk keeps its
\* start and ends below the excerpt's context: the pass queues the excerpt
\* for expansion Down by max(rows below the context end, default context),
\* queues no insertion and no removal for the file, and the excerpt stays.
C8_GrowDown ==
    AfterSteadyPass =>
        \A F \in NewFiles \cap OldFiles :
            LET xs == ExcerptsOf(last.old_excerpts, F)
            IN  (/\ Len(OldHunks(F)) = 1 /\ Len(NewHunks(F)) = 1 /\ Len(xs) = 1
                 /\ Covers(xs[1], OldHunks(F)[1])
                 /\ NewHunks(F)[1].start = OldHunks(F)[1].start
                 /\ NewHunks(F)[1].end > xs[1].end)
                =>
                LET k == <<Max(NewHunks(F)[1].end - xs[1].end, DEFAULT_MULTIBUFFER_CONTEXT),
                           "Down">>
                IN  /\ k \in DOMAIN last.excerpt_to_expand
                    /\ xs[1].id \in Range(last.excerpt_to_expand[k])
                    /\ F \notin QueuedBuffers
                    /\ xs[1].id \notin QueuedRemovals
                    /\ xs[1].id \in IdsOf(Doc)

\* Positions in the document of the excerpts of a buffer.
PositionsOf(exs, b) == {i \in DOMAIN exs : exs[i].buffer = b}

\* C9. A new file B with hunks, next in path order after A and before C,
\* which both have excerpts and keep their hunks: B's excerpts stand right
\* after A's last excerpt and before C's first, and no excerpt of A or C is
\* inserted, removed or expanded.
C9_InsertBetween ==
    AfterSteadyPass =>
        \A k \in 1..(Len(entry_order[LastW]) - 2) :
            LET A == entry_order[LastW][k].id
                B == entry_order[LastW][k + 1].id
                C == entry_order[LastW][k + 2].id
            IN  (/\ B \notin OldFiles /\ NewHunks(B) # <<>>
                 /\ A \in OldFiles /\ C \in OldFiles
                 /\ OldHunks(A) # <<>> /\ OldHunks(A) = NewHunks(A)
                 /\ OldHunks(C) # <<>> /\ OldHunks(C) = NewHunks(C)
                 /\ PositionsOf(last.old_excerpts, A) # {}
                 /\ PositionsOf(last.old_excerpts, C) # {})
                =>
                /\ Undisturbed(A)
                /\ Undisturbed(C)
                /\ PositionsOf(Doc, B) # {}
                /\ \A i \in PositionsOf(Doc, B) :
                       /\ i > 1
                       /\ Doc[i - 1].buffer \in {A, B}
                       /\ \A j \in PositionsOf(Doc, C) : i < j

\* C10. Bootstrap: the first pass of a worktree keeps every excerpt the
\* document had, in place, and appends after them, in ascending path order,
\* for exactly the files of the new snapshot with hunks, one excerpt per hunk:
\* the hunk padded by the default context and clipped to the buffer.
C10_Bootstrap ==
    last.kind = "bootstrap" =>
        LET old == last.old_excerpts
            added == SubSeq(Doc, Len(old) + 1, Len(Doc))
        IN  /\ Len(Doc) >= Len(old)
            /\ SubSeq(Doc, 1, Len(old)) = old
            /\ NothingQueued
            /\ {added[i].buffer : i \in DOMAIN added}
                   = {id \in NewFiles : NewHunks(id) # <<>>}
            /\ \A i, j \in DOMAIN added :
                   i < j => PathOf(added[i].buffer) <= PathOf(added[j].buffer)
            /\ \A id \in NewFiles :
                   LET xs == ExcerptsOf(added, id)
                   IN  /\ Len(xs) = Len(NewHunks(id))
                       /\ \A k \in DOMAIN xs : PadsExactly(xs[k], NewHunks(id)[k])

\* The bootstrap of a worktree has appended the excerpts of two files after
\* the excerpts of another worktree, and passed over a file without hunks.
C10_Witness ==
    /\ last.kind = "bootstrap"
    /\ last.old_excerpts # <<>>
    /\ Cardinality({id \in NewFiles : NewHunks(id) # <<>>}) >= 2
    /\ \E id \in NewFiles : Len(NewHunks(id)) = 2

\* C11. Sorted batched insertion: in every group of insertions queued after
\* one anchor the files stand in ascending path order, and the excerpts the
\* pass creates for the files of a group stand in the document in that order.
C11_SortedBatchedInsertion ==
    AfterSteadyPass =>
        \A a \in DOMAIN last.new_excerpt_hunks :
            LET group == last.new_excerpt_hunks[a]
            IN  /\ \A i, j \in DOMAIN group : i < j => group[i].path < group[j].path
                /\ \A f, g \in Range(group) :
                       f.path < g.path =>
                           \A i, j \in CreatedExcerpts :
                               (Doc[i].buffer = f.buffer /\ Doc[j].buffer = g.buffer) => i < j

\* The emptiness test of tab_content and render (project_diff.rs:937, 1084),
\* negated: the editor is shown instead of the "No changes" label.
has_any_changes == DOMAIN buffer_changes # {}

\* C17. The has-any-changes indicator is true exactly when the Changes map
\* of at least one worktree is non-empty.
C17_HasAnyChanges ==
    has_any_changes <=> \E w \in DOMAIN buffer_changes : DOMAIN buffer_changes[w] # {}

\* The calls the latest pass made to the MultiBuffer, and the place of a
\* method in the apply phase.
Calls == excerpts.calls
ApplyRank(op) ==
    CASE op = "insert_excerpts_after" -> 1
      [] op = "remove_excerpts" -> 2
      [] op = "expand_excerpts" -> 3
      [] OTHER -> 0

\* C19. Apply-phase ordering: in a steady-state pass every insertion is
\* applied before the removal and the removal before every expansion.
C19_ApplyOrdering ==
    AfterSteadyPass =>
        /\ \A i \in DOMAIN Calls : ApplyRank(Calls[i].op) > 0
        /\ \A i, j \in DOMAIN Calls :
               i < j => ApplyRank(Calls[i].op) <= ApplyRank(Calls[j].op)

\* A steady-state pass has inserted, has removed an excerpt and has expanded.
C19_Witness ==
    /\ AfterSteadyPass
    /\ last.excerpts_to_remove # <<>>
    /\ \A r \in 1..3 : \E i \in DOMAIN Calls : ApplyRank(Calls[i].op) = r

\* C20. Anchor validity: every anchor given to insert_excerpts_after in the
\* apply phase is the minimum id or the id of an excerpt that is in the
\* document when that insertion is applied.
C20_AnchorValidity ==
    AfterSteadyPass =>
        \A i \in DOMAIN Calls :
            Calls[i].op = "insert_excerpts_after" => Calls[i].anchor_valid

\* A steady-state pass has inserted after an excerpt that it then removed.
C20_Witness ==
    /\ AfterSteadyPass
    /\ \E i \in DOMAIN Calls :
           /\ Calls[i].op = "insert_excerpts_after"
           /\ Calls[i].anchor # ExcerptIdMin
           /\ Calls[i].anchor_valid
           /\ Calls[i].anchor \in Range(last.excerpts_to_remove)
           /\ Calls[i].anchor \notin IdsOf(Doc)

\* A task that is neither cancelled nor finished, and the tasks of a worktree.
Live(t) == ~tasks[t].cancelled /\ tasks[t].pc # "done"
TasksOf(id) == {t \in DOMAIN tasks : tasks[t].id = id}
\* The task whose call of update_excerpts was the latest pass.
IsLastApplied(t) ==
    /\ AfterPass
    /\ tasks[t].pc = "recalculating"
    /\ tasks[t].applied_at = passes

\* The task stored for its worktree: the one scheduled last for it.
Stored(t) ==
    /\ t \in DOMAIN tasks
    /\ Has(worktree_rescans, tasks[t].id)
    /\ worktree_rescans[tasks[t].id] = t

\* C12. Coalescing: of the tasks a burst of notifications for one worktree
\* schedules, exactly the one scheduled last applies its result, once.  A
\* task applies only while it is the task stored for its worktree; a task
\* replaced before it applied is cancelled and never reaches the apply
\* step; the task scheduled last is never cancelled; every pass is the apply
\* step of one task, which applies once; and the task stored for a worktree
\* does apply its result unless a later notification replaces it first.
C12_Coalescing ==
    /\ [](\A t \in DOMAIN tasks :
            /\ tasks[t].applied_at > 0 => tasks[t].stored_at_apply
            /\ (~Stored(t) /\ tasks[t].applied_at = 0) => ~Live(t)
            /\ Stored(t) => ~tasks[t].cancelled)
    /\ [][/\ \A t \in DOMAIN tasks :
                tasks[t].applied_at > 0 => tasks'[t].applied_at = tasks[t].applied_at
          /\ passes' = passes + 1 =>
                \E t \in DOMAIN tasks :
                    /\ Stored(t)
                    /\ tasks[t].applied_at = 0
                    /\ tasks'[t].applied_at = passes'
                    /\ \A u \in DOMAIN tasks \ {t} :
                           tasks'[u].applied_at = tasks[u].applied_at]_vars
    /\ \A t \in 1..MaxTasks :
           (Stored(t) /\ tasks[t].applied_at = 0)
               ~> (t \in DOMAIN tasks /\ (tasks[t].applied_at > 0 \/ ~Stored(t)))

\* A burst of two notifications for one worktree has ended in one pass: the
\* second notification replaced a task that had its result ready, and the
\* task scheduled in its place, still the stored one, has applied its own.
C12_Witness ==
    \E t, u \in DOMAIN tasks :
        /\ t < u
        /\ tasks[t].id = tasks[u].id
        /\ tasks[t].cancelled
        /\ tasks[t].pc = "loaded"
        /\ tasks[t].applied_at = 0
        /\ Stored(u)
        /\ tasks[u].applied_at = passes
        /\ passes = 1

\* C13. At most one rescan task of a worktree is live.
C13_OneLiveTask ==
    \A id \in Worktrees : Cardinality({t \in TasksOf(id) : Live(t)}) <= 1

\* A worktree has a live task and a task that was cancelled while running.
C13_Witness ==
    \E t, u \in DOMAIN tasks :
        /\ tasks[t].id = tasks[u].id
        /\ tasks[t].cancelled
        /\ tasks[t].pc \in {"opening", "loaded"}
        /\ Live(u)

\* C14. Eventual reflection, at its end: when the task scheduled by the
\* latest notification of a worktree has applied a snapshot that is the
\* present state of the worktree, all of it loaded, the document shows that
\* state: every hunk lies in an excerpt of its file, and only files with
\* hunks have excerpts.
C14_EventualReflection ==
    \A t \in DOMAIN tasks :
        LET id == tasks[t].id
        IN  (/\ IsLastApplied(t)
             /\ tasks[t].stored_at_apply
             /\ id \in project.worktrees
             /\ tasks[t].failed = {}
             /\ tasks[t].files = project.files[id])
            =>
            /\ \A p \in DOMAIN project.files[id] :
                   \A h \in Range(project.files[id][p]) :
                       \E i \in DOMAIN Doc :
                           Doc[i].buffer = EntryId(id, p) /\ Covers(Doc[i], h)
            /\ \A i \in DOMAIN Doc :
                   WorktreeOf(Doc[i].buffer) = id =>
                       /\ PathOf(Doc[i].buffer) \in DOMAIN project.files[id]
                       /\ project.files[id][PathOf(Doc[i].buffer)] # <<>>

\* C15. Eviction: after WorktreeRemoved(id) is handled the editor holds no
\* Changes map, no entry order and no pending task for id; after Closed it
\* holds none for any worktree.
C15_Eviction ==
    /\ last.kind = "WorktreeRemoved" =>
           /\ ~Has(buffer_changes, last.worktree_id)
           /\ ~Has(entry_order, last.worktree_id)
           /\ \A t \in TasksOf(last.worktree_id) : ~Live(t)
    /\ last.kind = "Closed" =>
           /\ buffer_changes = EmptyMap
           /\ entry_order = EmptyMap
           /\ \A t \in DOMAIN tasks : ~Live(t)

\* C16. Stale-result discard: a pass applied for a worktree the project no
\* longer has leaves no Changes map and no entry order for it and leaves
\* the document as it was.
C16_StaleResultDiscard ==
    (AfterPass /\ LastW \notin project.worktrees) =>
        /\ ~Has(buffer_changes, LastW)
        /\ ~Has(entry_order, LastW)
        /\ Doc = last.old_excerpts

\* C18. Load failure: after a pass some of whose files failed to load, the
\* loaded files are in the entry order and in the Changes map, the failed
\* files are in neither and have no excerpt.
C18_LoadFailure ==
    \A t \in DOMAIN tasks :
        (IsLastApplied(t) /\ tasks[t].failed # {}) =>
            LET id == tasks[t].id
                loaded == {EntryId(id, p) : p \in tasks[t].entries \ tasks[t].failed}
                failed == {EntryId(id, p) : p \in tasks[t].failed}
            IN  /\ Has(entry_order, id) /\ Has(buffer_changes, id)
                /\ NewFiles = loaded
                /\ DOMAIN buffer_changes[id] = loaded
                /\ \A i \in DOMAIN Doc : Doc[i].buffer \notin failed

\* C21. Wholesale replacement: after update_excerpts, on the bootstrap and on
\* the steady-state path, the worktree's stored Changes map and entry order
\* are the ones the call was given.
C21_WholesaleReplacement ==
    AfterPass =>
        /\ Has(buffer_changes, LastW) /\ Has(entry_order, LastW)
        /\ buffer_changes[LastW] = last.new_changes
        /\ entry_order[LastW] = last.new_entry_order

\* A steady-state pass has replaced a snapshot by one that lacks one of its
\* files and has a file it lacked.
C21_Witness ==
    /\ AfterSteadyPass
    /\ \E e \in Range(last.old_order) : ~Has(buffer_changes[LastW], e.id)
    /\ \E e \in Range(entry_order[LastW]) : ~Has(last.old_changes, e.id)

\* C22. Path-order invariant: in every state the stored entry order of every
\* worktree is ascending under the path comparator.
C22_PathOrder ==
    \A w \in DOMAIN entry_order :
        \A i, j \in DOMAIN entry_order[w] :
            i < j => compare_paths(entry_order[w][i].path, entry_order[w][j].path) = "Less"

\* A rescan task has delivered an entry order of more than one file.
C22_Witness ==
    \E t \in DOMAIN tasks :
        /\ IsLastApplied(t)
        /\ Len(entry_order[tasks[t].id]) >= 2

\* A context range and a hunk that share a row.
Overlaps(x, h) == x.start <= h.end /\ h.start <= x.end

\* C23. No hunkless excerpt: after a pass, the context range of every excerpt
\* of a file of the worktree overlaps a hunk that the worktree's Changes
\* hold for the file.
C23_NoHunklessExcerpt ==
    AfterPass =>
        \A i \in DOMAIN Doc :
            WorktreeOf(Doc[i].buffer) = LastW =>
                \E h \in Range(NewHunks(Doc[i].buffer)) : Overlaps(Doc[i], h)

\* The excerpts of one buffer stand in a document in non-decreasing buffer
\* order and no two of them share a row.
NonOverlapping(exs) ==
    \A i, j \in DOMAIN exs :
        (i < j /\ exs[i].buffer = exs[j].buffer)
            => /\ exs[i].start <= exs[j].start
               /\ exs[i].end < exs[j].start

\* C24. Non-overlap: after a pass the excerpts of one buffer are in
\* non-decreasing buffer order and do not overlap.  Stated for the
\* steady-state pass, whose insertions are computed by update_excerpts: a
\* pass on a document that is so ordered leaves it so ordered.
C24_NonOverlap ==
    (AfterSteadyPass /\ NonOverlapping(last.old_excerpts)) => NonOverlapping(Doc)

\* The keystroke that to_esc_str or modifier_code was called on.
Ks == terminal.keystroke
Translated == terminal.pc = "to_esc_str"
\* The keystroke has exactly the modifiers given.
OnlyMods(ctrl, alt, shift) ==
    /\ Ks.ctrl = ctrl /\ Ks.alt = alt /\ Ks.shift = shift /\ ~Ks.cmd

\* C25. modifier_code is 1, plus 1 for shift, plus 2 for alt, plus 4 for ctrl,
\* whatever the key and the cmd flag.
C25_ModifierCode ==
    terminal.pc = "modifier_code" =>
        terminal.modifier_code =
            1 + (IF Ks.shift THEN 1 ELSE 0) + (IF Ks.alt THEN 2 ELSE 0)
              + (IF Ks.ctrl THEN 4 ELSE 0)

\* modifier_code has answered 8 for shift-alt-ctrl with cmd held.
C25_Witness ==
    /\ terminal.pc = "modifier_code"
    /\ Ks.shift /\ Ks.alt /\ Ks.ctrl /\ Ks.cmd
    /\ terminal.modifier_code = 8

\* The lowercase letters, and the key of the uppercase letter of one.
LowerLetters == {k \in Keys : Len(KeyBytes(k)) = 1 /\ KeyBytes(k)[1] \in 97..122}
Upper(k) == CHOOSE u \in Keys : KeyBytes(u) = <<KeyBytes(k)[1] - 32>>

\* C26. For every lowercase letter and every mode, to_esc_str of ctrl-letter
\* is to_esc_str of ctrl-shift-<uppercase letter>: the control byte of the
\* letter in caret notation.
C26_CtrlCodes ==
    (Translated /\ Ks.key \in LowerLetters /\ OnlyMods(TRUE, FALSE, FALSE)) =>
        /\ terminal.esc_str =
               to_esc_str([Ks EXCEPT !.key = Upper(Ks.key), !.shift = TRUE],
                          terminal.mode, terminal.alt_is_meta)
        /\ terminal.esc_str = Some(<<KeyBytes(Ks.key)[1] - 96>>)

\* ctrl-z was translated to the byte 26 in a mode with every flag set.
C26_Witness ==
    /\ Translated
    /\ Ks.key = "z" /\ OnlyMods(TRUE, FALSE, FALSE)
    /\ terminal.mode = TermModeFlags
    /\ terminal.esc_str = Some(<<26>>)

\* The keys of one printable ASCII character, ' ' through '~'.
PrintableKeys == {k \in Keys : Len(KeyBytes(k)) = 1 /\ KeyBytes(k)[1] \in 32..126}

\* C27. With alt_is_meta and Alt as the only modifier, in mode NONE,
\* to_esc_str of a key of one printable ASCII character is ESC and the key.
C27_AltIsMeta ==
    (/\ Translated
     /\ terminal.alt_is_meta
     /\ terminal.mode = {}
     /\ OnlyMods(FALSE, TRUE, FALSE)
     /\ Ks.key \in PrintableKeys)
        => terminal.esc_str = Some(<<27>> \o KeyBytes(Ks.key))

\* alt-~ was translated to ESC ~ under alt_is_meta in mode NONE.
C27_Witness ==
    /\ Translated
    /\ terminal.alt_is_meta /\ terminal.mode = {}
    /\ OnlyMods(FALSE, TRUE, FALSE)
    /\ Ks.key = "~"
    /\ terminal.esc_str = Some(<<27, 126>>)

\* The named keys that have a modifier-parameterised escape sequence.
ModifiedFamily ==
    {"up", "down", "right", "left", "insert", "pageup", "pagedown", "end", "home",
     "f1", "f2", "f3", "f4", "f5", "f6", "f7", "f8", "f9", "f10",
     "f11", "f12", "f13", "f14", "f15", "f16", "f17", "f18", "f19", "f20"}

\* C28. For every key of the modified family pressed with Alt under
\* alt_is_meta, to_esc_str returns a value, the value is not ESC and the
\* name of the key, and it is a modifier-parameterised sequence with the
\* modifier code 3 of Alt.
C28_AltNamedKeys ==
    (/\ Translated
     /\ terminal.alt_is_meta
     /\ OnlyMods(FALSE, TRUE, FALSE)
     /\ Ks.key \in ModifiedFamily)
        => /\ terminal.esc_str.is_some
           /\ terminal.esc_str.value # <<27>> \o KeyBytes(Ks.key)
           /\ \E arm \in Range(ModifiedBindings) \cup Range(ModifiedBindingsAfterShift) :
                  terminal.esc_str.value = arm.prefix \o <<51>> \o arm.suffix

\* The shift-modified escape sequences of the scroll keys:
\* ESC[5;2~, ESC[6;2~, ESC[1;2H, ESC[1;2F.
ScrollKeys == {"pageup", "pagedown", "home", "end"}
ShiftScrollSequence(key) ==
    IF key = "pageup" THEN <<27, 91, 53, 59, 50, 126>>
    ELSE IF key = "pagedown" THEN <<27, 91, 54, 59, 50, 126>>
    ELSE IF key = "home" THEN <<27, 91, 49, 59, 50, 72>>
    ELSE <<27, 91, 49, 59, 50, 70>>

\* C29. Scroll keys: shift-pageup, shift-pagedown, shift-home and shift-end
\* give None when the mode lacks ALT_SCREEN and their shift-modified escape
\* sequence when it has ALT_SCREEN.
C29_ScrollKeys ==
    (Translated /\ Ks.key \in ScrollKeys /\ OnlyMods(FALSE, FALSE, TRUE)) =>
        terminal.esc_str = IF "ALT_SCREEN" \in terminal.mode
                           THEN Some(ShiftScrollSequence(Ks.key))
                           ELSE None

\* shift-home was translated to None in a mode without ALT_SCREEN that has
\* other flags, under alt_is_meta.
C29_Witness ==
    /\ Translated
    /\ Ks.key = "home" /\ OnlyMods(FALSE, FALSE, TRUE)
    /\ terminal.mode = {"APP_CURSOR", "SHOW_CURSOR"}
    /\ terminal.alt_is_meta
    /\ terminal.esc_str = None

\* The arrow keys and the final byte of their escape sequences (A, B, C, D).
ArrowKeys == {"up", "down", "right", "left"}
ArrowLetter(key) ==
    IF key = "up" THEN 65 ELSE IF key = "down" THEN 66
    ELSE IF key = "right" THEN 67 ELSE 68

\* C30. Application cursor mode: an arrow key without modifiers gives
\* ESC O <letter> when the mode has APP_CURSOR and ESC [ <letter> when it
\* does not.
C30_ApplicationCursor ==
    (Translated /\ Ks.key \in ArrowKeys /\ OnlyMods(FALSE, FALSE, FALSE)) =>
        terminal.esc_str =
            Some(<<27, IF "APP_CURSOR" \in terminal.mode THEN 79 ELSE 91,
                   ArrowLetter(Ks.key)>>)

\* The left arrow was translated to ESC [ D in a mode without APP_CURSOR
\* that has ALT_SCREEN.
C30_Witness ==
    /\ Translated
    /\ Ks.key = "left" /\ OnlyMods(FALSE, FALSE, FALSE)
    /\ terminal.mode = {"ALT_SCREEN"}
    /\ terminal.esc_str = Some(<<27, 91, 68>>)

\* ------------------------------------------- claims on the Equal-path arm
\* The files of the latest pass that took the Ordering::Equal arm with a
\* Changes entry on both sides (project_diff.rs:413-415): in the old order
\* with old hunks, and in the new order and the new Changes map.
EqualPathFiles ==
    {F \in OldFiles : /\ OldHunks(F) # <<>>
                      /\ F \in {e.id : e \in Range(last.new_entry_order)}
                      /\ Has(last.new_changes, F)}

\* What the first diff of the latest pass made of the hunks of file F.
HunkDiffOf(F) ==
    DiffHunks(OldHunks(F), last.new_changes[F].hunks, 1, 1,
              [unchanged |-> <<>>, with_updates |-> <<>>])

\* C31. Hunk classification: on the Equal-path arm every new hunk whose
\* start and end are those of some hunk of the file's old hunk list is
\* classified as unchanged, wherever that old hunk sits in the old list.
C31_UnchangedClassification ==
    AfterSteadyPass =>
        \A F \in EqualPathFiles :
            \A h \in Range(last.new_changes[F].hunks) :
                h \in Range(OldHunks(F)) => h \in Range(HunkDiffOf(F).unchanged)

\* A hunk that lies entirely beyond one edge of a context range.
Disjoint(x, h) == h.start > x.end \/ h.end < x.start

\* C32. Disjoint hunk: on the Equal-path arm, an excerpt of the file that no
\* changed or new hunk overlaps is not queued for expansion, and a changed or
\* new hunk that overlaps no excerpt of the file is queued for insertion.
C32_DisjointHunk ==
    AfterSteadyPass =>
        \A F \in EqualPathFiles :
            LET xs == ExcerptsOf(last.old_excerpts, F)
                changed == Range(HunkDiffOf(F).with_updates)
            IN  /\ \A i \in DOMAIN xs :
                       (\A h \in changed : Disjoint(xs[i], h))
                           => xs[i].id \notin QueuedExpansions
                /\ \A h \in changed :
                       (\A i \in DOMAIN xs : Disjoint(xs[i], h))
                           => F \in QueuedBuffers

\* The excerpt of the document before the latest pass that has the given id.
OldExcerpt(id) ==
    LET i == CHOOSE j \in DOMAIN last.old_excerpts : last.old_excerpts[j].id = id
    IN  last.old_excerpts[i]

\* An expansion key <<line_count, direction>> that grows excerpt x on every
\* side where hunk h extends past its context, by the larger of the rows the
\* hunk extends past the context on the sides grown and the default context.
GrowsToward(x, h, k) ==
    LET up == saturating_sub(x.start, h.start)
        down == saturating_sub(h.end, x.end)
    IN  /\ up > 0 => k[2] \in {"Up", "UpAndDown"}
        /\ down > 0 => k[2] \in {"Down", "UpAndDown"}
        /\ k[1] = Max(DEFAULT_MULTIBUFFER_CONTEXT,
                      IF k[2] = "Up" THEN up
                      ELSE IF k[2] = "Down" THEN down ELSE Max(up, down))

\* C33. Expansion amount and side: every expansion queued for an excerpt
\* that a changed or new hunk of its file overlaps is queued on account of
\* such a hunk: it grows the excerpt on the side(s) where the hunk extends
\* past the context, by max(rows past the context, default context), and
\* after the pass the excerpt's context covers the hunk.
C33_ExpansionAmountAndSide ==
    AfterSteadyPass =>
        \A k \in DOMAIN last.excerpt_to_expand :
            \A id \in Range(last.excerpt_to_expand[k]) :
                LET x == OldExcerpt(id)
                    changed == {h \in Range(HunkDiffOf(x.buffer).with_updates) :
                                    ~Disjoint(x, h)}
                IN  changed # {} =>
                        \E h \in changed :
                            /\ GrowsToward(x, h, k)
                            /\ \E i \in DOMAIN Doc :
                                   Doc[i].id = id /\ Covers(Doc[i], h)

\* Every range the latest pass queued for insertion for buffer b, over all
\* the anchors of new_excerpt_hunks, as one sequence.
RECURSIVE ConcatRanges(_, _)
ConcatRanges(groups, b) ==
    IF groups = <<>> THEN <<>>
    ELSE (IF groups[1].buffer = b THEN groups[1].ranges ELSE <<>>)
             \o ConcatRanges(Tail(groups), b)

RECURSIVE QueuedRangesOver(_, _)
QueuedRangesOver(keys, b) ==
    IF keys = <<>> THEN <<>>
    ELSE ConcatRanges(last.new_excerpt_hunks[keys[1]], b)
             \o QueuedRangesOver(Tail(keys), b)

QueuedRanges(b) == QueuedRangesOver(SortedKeys(DOMAIN last.new_excerpt_hunks), b)

\* C34. Fresh insertion: on the Equal-path arm, a file without an excerpt has
\* exactly its changed or new hunks queued for insertion; no hunk range of a
\* file is queued more than once in a pass and no hunk classified as
\* unchanged is queued.
C34_FreshInsertion ==
    AfterSteadyPass =>
        \A F \in EqualPathFiles :
            LET q == QueuedRanges(F)
                d == HunkDiffOf(F)
            IN  /\ \A i, j \in DOMAIN q : q[i] = q[j] => i = j
                /\ \A h \in Range(d.unchanged) : h \notin Range(q)
                /\ ExcerptsOf(last.old_excerpts, F) = <<>>
                       => Range(q) = Range(d.with_updates)

\* The excerpts of file F that the second diff of the latest pass marked as
\* touched (excerpts_with_new_changes, project_diff.rs:526-769).
TouchedOf(F) ==
    ClassifyHunks([new_path |-> PathOf(F), buffer |-> last.new_changes[F].buffer,
                   new_hunks |-> last.new_changes[F].hunks,
                   excerpts |-> ExcerptsOf(last.old_excerpts, F)],
                  HunkDiffOf(F).with_updates, 1,
                  [new_excerpt_hunks |-> EmptyMap, excerpt_to_expand |-> EmptyMap,
                   excerpts_to_remove |-> <<>>, latest_excerpt_id |-> ExcerptIdMin,
                   excerpts_with_new_changes |-> {}, ce |-> 1]).excerpts_with_new_changes

\* C35. Untouched-excerpt removal: on the Equal-path arm an excerpt of the
\* file is queued for removal if and only if it was not marked touched and
\* its context range shares no row with a hunk classified as unchanged.
C35_UntouchedRemoval ==
    AfterSteadyPass =>
        \A F \in EqualPathFiles :
            LET xs == ExcerptsOf(last.old_excerpts, F)
            IN  \A i \in DOMAIN xs :
                    xs[i].id \in QueuedRemovals
                        <=> /\ xs[i].id \notin TouchedOf(F)
                            /\ \A h \in Range(HunkDiffOf(F).unchanged) :
                                   ~Overlaps(xs[i], h)

\* A pass on the Equal-path arm that removed one untouched excerpt of a file
\* and kept another untouched one, which shares only an endpoint with an
\* unchanged hunk.
C35_Witness ==
    /\ AfterSteadyPass
    /\ \E F \in EqualPathFiles :
           LET xs == ExcerptsOf(last.old_excerpts, F)
           IN  \E i \in DOMAIN xs :
                   /\ xs[i].id \notin TouchedOf(F)
                   /\ xs[i].id \notin QueuedRemovals
                   /\ \A h \in Range(HunkDiffOf(F).unchanged) :
                          Overlaps(xs[i], h) => (xs[i].start = h.end \/ xs[i].end = h.start)
    /\ last.excerpts_to_remove # <<>>

\* The steps a task takes around its diff recalculations: from handing its
\* result to update_excerpts, and to its end.
Applies(t) == tasks[t].pc = "loaded" /\ tasks'[t].pc = "recalculating"
Completes(t) == tasks[t].pc = "recalculating" /\ tasks'[t].pc = "done"

\* C36. Post-reconciliation recomputation: the apply step of a rescan task
\* requests a diff recalculation of every buffer the document then holds
\* and awaits only recalculations of those buffers; the task ends only when
\* none of the recalculations it started is pending; and a task that awaits
\* its recalculations ends unless it is cancelled.
C36_Recalculation ==
    /\ [][\A t \in DOMAIN tasks :
            /\ Applies(t) =>
                   /\ tasks'[t].recalculate_diff_calls
                          = {excerpts'.excerpts[i].buffer :
                                 i \in DOMAIN excerpts'.excerpts}
                   /\ tasks'[t].diff_recalculations
                          \subseteq tasks'[t].recalculate_diff_calls
            /\ Completes(t) => tasks[t].diff_recalculations = {}]_vars
    /\ \A t \in 1..MaxTasks :
           (t \in DOMAIN tasks /\ tasks[t].pc = "recalculating")
               ~> (t \in DOMAIN tasks /\ (tasks[t].pc = "done" \/ tasks[t].cancelled))

\* A task has applied a pass that left two buffers in the document, has
\* called recalculate_diff on both and awaits the one recalculation that has
\* not ended yet.
C36_Witness ==
    \E t \in DOMAIN tasks :
        /\ tasks[t].pc = "recalculating"
        /\ tasks[t].applied_at = passes
        /\ Cardinality(tasks[t].recalculate_diff_calls) >= 2
        /\ Cardinality(tasks[t].diff_recalculations) = 1

\* The excerpts of a document whose buffer is not a file of worktree w.
ExcerptsOutside(exs, w) == SelectSeq(exs, LAMBDA x : WorktreeOf(x.buffer) # w)

\* A map from worktrees that holds for worktree w after the step what it
\* held before.
KeepsEntry(map, map_after, w) ==
    /\ Has(map, w) <=> Has(map_after, w)
    /\ Has(map, w) => map[w] = map_after[w]

\* C37. Cross-root frame: a pass for worktree R leaves the entry order and
\* the Changes map stored for every other worktree as they were, and leaves
\* every excerpt of a buffer of another worktree in the document, unchanged
\* and in the same order.
C37_CrossRootFrame ==
    [][passes' = passes + 1 =>
          LET R == last'.worktree_id
          IN  /\ \A w \in Worktrees \ {R} :
                     /\ KeepsEntry(entry_order, entry_order', w)
                     /\ KeepsEntry(buffer_changes, buffer_changes', w)
              /\ ExcerptsOutside(excerpts'.excerpts, R)
                     = ExcerptsOutside(excerpts.excerpts, R)]_vars

\* A steady-state pass has changed the document while another worktree has
\* a stored order, stored changes and an excerpt in the document.
C37_Witness ==
    /\ AfterSteadyPass
    /\ ~NothingQueued
    /\ \E w \in Worktrees \ {LastW} :
           /\ Has(entry_order, w) /\ Has(buffer_changes, w)
           /\ \E i \in DOMAIN Doc : WorktreeOf(Doc[i].buffer) = w

\* C38. After WorktreeRemoved(R) has been handled and every rescan task of R
\* has ended or been cancelled, the document holds no excerpt of a buffer of
\* a file of R.
C38_RemovedRootHasNoExcerpt ==
    \A R \in Worktrees :
        (/\ R \notin project.worktrees
         /\ \A t \in TasksOf(R) : ~Live(t))
            => \A i \in DOMAIN Doc : WorktreeOf(Doc[i].buffer) # R

\* C39. In a steady-state pass no excerpt id is queued both for removal and
\* for expansion, and no excerpt id is queued for removal more than once.
C39_RemovalExpansionDisjoint ==
    AfterSteadyPass =>
        /\ QueuedRemovals \cap QueuedExpansions = {}
        /\ \A i, j \in DOMAIN last.excerpts_to_remove :
               last.excerpts_to_remove[i] = last.excerpts_to_remove[j] => i = j

\* A steady-state pass queued an expansion of one excerpt and the removal of
\* another excerpt of the same file.
C39_Witness ==
    /\ AfterSteadyPass
    /\ \E a \in QueuedRemovals : \E b \in QueuedExpansions :
           OldExcerpt(a).buffer = OldExcerpt(b).buffer

\* The elements the running loop has left: the items of its for loop from
\* the one under it, and the elements of its cursor not yet taken.
Remaining(l) == (Len(l.outer) + 1 - l.o) + (Len(l.cursor) + 1 - l.c)

\* C40. update_excerpts terminates for every input, sorted or not: every
\* iteration of the path-merge loop, of the hunk-against-hunk loop and of
\* the hunk-against-excerpt loop leaves the loop or takes one element off a
\* finite cursor, and the loop comes to its end.
C40_Termination ==
    /\ [][loops.pc = "loop" =>
              /\ Remaining(loops') < Remaining(loops)
              /\ Remaining(loops') >= 0]_vars
    /\ <>[](loops.pc = "done")

\* A loop has ended on unsorted input after taking every element of its cursor.
C40_Witness ==
    /\ loops.pc = "done"
    /\ Len(loops.outer) >= 2 /\ Len(loops.cursor) >= 2
    /\ loops.c > Len(loops.cursor)
    /\ \/ loops.kind = "path_merge" /\ loops.cursor[1] > loops.cursor[2]
       \/ loops.kind # "path_merge" /\ loops.cursor[1].start > loops.cursor[2].start

====
